---- MODULE Spec2Model ----
(***************************************************************************)
(* Site cloner: crawl engine (src/src/crawler.js), HTTP fetcher            *)
(* (src/unnamed/part_001), clone job orchestration (src/src/cloner.js),    *)
(* asset downloaders (src/src/extractors/{images,fonts,scripts}.js) and    *)
(* the rewriting engine (second half of src/src/extractors/content.js).    *)
(*                                                                         *)
(* Strings are sequences of tokens.  A token is a run of characters of one *)
(* class: a word of letters and digits ("about", "html"), or one           *)
(* punctuation character ("/", ".", "-", "_", "?", "#"), or a scheme       *)
(* ("https:").  Every regular expression of the source that the model      *)
(* translates works on character classes, so it acts on tokens as it acts  *)
(* on the characters.                                                      *)
(***************************************************************************)
EXTENDS Integers, Sequences, FiniteSets, Bags, TLC

(***************************************************************************)
(* String helpers (JavaScript String.prototype)                            *)
(***************************************************************************)
Null == <<>>

StartsWith(s, p) == Len(s) >= Len(p) /\ SubSeq(s, 1, Len(p)) = p

EndsWith(s, p) == Len(s) >= Len(p) /\ SubSeq(s, Len(s) - Len(p) + 1, Len(s)) = p

Includes(s, p) == \E i \in 1..(Len(s) - Len(p) + 1) : SubSeq(s, i, i + Len(p) - 1) = p

\* index of the first token of s at or after from that is in S; Len(s) + 1 if none
FirstIdx(s, from, S) ==
  IF \E i \in from..Len(s) : s[i] \in S
    THEN CHOOSE i \in from..Len(s) : s[i] \in S /\ \A j \in from..(i - 1) : s[j] \notin S
    ELSE Len(s) + 1

\* index of the last token of s that is in S; 0 if none
LastIdx(s, S) ==
  IF \E i \in 1..Len(s) : s[i] \in S
    THEN CHOOSE i \in 1..Len(s) : s[i] \in S /\ \A j \in (i + 1)..Len(s) : s[j] \notin S
    ELSE 0

\* s.slice(from - 1): the tokens from index from on
From(s, from) == SubSeq(s, from, Len(s))

RECURSIVE ReplaceToks(_, _, _)
\* s.replace(/[class]/g, to): every token of s that is in S replaced by the token to
ReplaceToks(s, S, to) ==
  IF s = <<>> THEN <<>>
  ELSE <<IF Head(s) \in S THEN to ELSE Head(s)>> \o ReplaceToks(Tail(s), S, to)

\* a JavaScript Set keeps insertion order: set.add(x) on the sequence of its members
SetAdd(seq, x) == IF \E i \in 1..Len(seq) : seq[i] = x THEN seq ELSE Append(seq, x)

Has(seq, x) == \E i \in 1..Len(seq) : seq[i] = x

RECURSIVE AddAll(_, _)
\* xs.forEach(x => set.add(x))
AddAll(seq, xs) == IF xs = <<>> THEN seq ELSE AddAll(SetAdd(seq, Head(xs)), Tail(xs))

(***************************************************************************)
(* WHATWG URL (node's require('url').URL)                                  *)
(***************************************************************************)
Schemes == {"https:", "http:"}

NoUrl == [ok |-> FALSE, protocol |-> "", hostname |-> <<>>, pathname |-> <<>>,
          search |-> <<>>, hash |-> <<>>]

RECURSIVE SplitPath(_)
\* the segments of a path that starts with "/": "/a/" -> <<a, empty>>
SplitPath(p) ==
  IF p = <<>> THEN <<>>
  ELSE LET rest == Tail(p)
           e == FirstIdx(rest, 1, {"/"})
       IN <<SubSeq(rest, 1, e - 1)>> \o SplitPath(From(rest, e))

RECURSIVE JoinPath(_)
JoinPath(segs) ==
  IF segs = <<>> THEN <<>> ELSE <<"/">> \o Head(segs) \o JoinPath(Tail(segs))

RECURSIVE DotSegs(_, _)
\* the URL standard's path state: "." is dropped, ".." pops the last segment;
\* either one as the last segment leaves an empty last segment
DotSegs(segs, out) ==
  IF segs = <<>> THEN out
  ELSE LET s == Head(segs)
           last == Len(segs) = 1
       IN IF s = <<".">>
            THEN DotSegs(Tail(segs), IF last THEN Append(out, <<>>) ELSE out)
          ELSE IF s = <<".", ".">>
            THEN LET popped == IF out = <<>> THEN out ELSE SubSeq(out, 1, Len(out) - 1)
                 IN DotSegs(Tail(segs), IF last THEN Append(popped, <<>>) ELSE popped)
          ELSE DotSegs(Tail(segs), Append(out, s))

NormPath(p) ==
  IF p = <<>> THEN <<"/">>
  ELSE LET segs == DotSegs(SplitPath(p), <<>>)
       IN IF segs = <<>> THEN <<"/">> ELSE JoinPath(segs)

\* new URL(s): an absolute URL string parsed into its components
ParseUrl(s) ==
  IF ~(Len(s) >= 4 /\ s[1] \in Schemes /\ s[2] = "/" /\ s[3] = "/") THEN NoUrl
  ELSE LET hEnd == FirstIdx(s, 4, {"/", "?", "#"})
           pEnd == FirstIdx(s, hEnd, {"?", "#"})
           qEnd == FirstIdx(s, pEnd, {"#"})
       IN IF hEnd = 4 THEN NoUrl
          ELSE [ok |-> TRUE, protocol |-> s[1],
                hostname |-> SubSeq(s, 4, hEnd - 1),
                pathname |-> NormPath(SubSeq(s, hEnd, pEnd - 1)),
                search |-> SubSeq(s, pEnd, qEnd - 1),
                hash |-> From(s, qEnd)]

\* u.origin
Origin(u) == <<u.protocol, "/", "/">> \o u.hostname

\* u.href
Href(u) == Origin(u) \o u.pathname \o u.search \o u.hash

\* new URL(href, base): href resolved against the absolute URL string base
ResolveAgainst(href, base) ==
  LET b == ParseUrl(base) IN
  IF Len(href) >= 1 /\ href[1] \in Schemes THEN ParseUrl(href)
  ELSE IF ~b.ok THEN NoUrl
  ELSE IF StartsWith(href, <<"/", "/">>) THEN ParseUrl(<<b.protocol>> \o href)
  ELSE LET pEnd == FirstIdx(href, 1, {"?", "#"})
           qEnd == FirstIdx(href, pEnd, {"#"})
           hp == SubSeq(href, 1, pEnd - 1)
           hq == SubSeq(href, pEnd, qEnd - 1)
           hh == From(href, qEnd)
           dir == SubSeq(b.pathname, 1, LastIdx(b.pathname, {"/"}))
       IN IF hp = <<>>
            THEN [b EXCEPT !.search = IF hq = <<>> THEN b.search ELSE hq, !.hash = hh]
          ELSE IF hp[1] = "/"
            THEN [b EXCEPT !.pathname = NormPath(hp), !.search = hq, !.hash = hh]
          ELSE [b EXCEPT !.pathname = NormPath(dir \o hp), !.search = hq, !.hash = hh]

(***************************************************************************)
(* src/src/utils/url.js and the URL helpers of src/src/crawler.js          *)
(***************************************************************************)
\* the words of the model's alphabet that begin with two letters ([a-zA-Z]{2,})
Alpha2Words == {"example", "com", "www", "other", "about", "html", "blog", "foo",
                "sitemap", "index", "xml", "sub", "png", "img", "assets", "images",
                "fonts", "js", "app", "css", "woff"}

\* the words of the model's alphabet ([a-zA-Z0-9]+)
Words == Alpha2Words \cup {"a", "b", "x", "v", "f", "q", "1", "2"}

\* /^[a-zA-Z0-9][-a-zA-Z0-9]*\.[a-zA-Z]{2,}/.test(seg)
LooksLikeDomain(seg) ==
  LET d == FirstIdx(seg, 1, {"."})
  IN /\ d > 1
     /\ d < Len(seg)
     /\ seg[1] \in Words
     /\ \A i \in 1..(d - 1) : seg[i] \in Words \cup {"-"}
     /\ seg[d + 1] \in Alpha2Words

RECURSIVE StripLeadingSlashes(_)
\* s.replace(/^\/+/, '')
StripLeadingSlashes(s) ==
  IF s # <<>> /\ Head(s) = "/" THEN StripLeadingSlashes(Tail(s)) ELSE s

\* host.replace(/^www\./, '')
StripWww(h) == IF StartsWith(h, <<"www", ".">>) THEN From(h, 3) ELSE h

resolveUrl(href, baseUrl) ==
  IF href = Null THEN Null
  ELSE LET fixed ==
             IF StartsWith(href, <<"/", "/">>) THEN <<"https:">> \o href
             ELSE IF StartsWith(href, <<"www", ".">>)
                     \/ LooksLikeDomain(SubSeq(href, 1, FirstIdx(href, 1, {"/"}) - 1))
               THEN <<"https:", "/", "/">> \o StripLeadingSlashes(href)
             ELSE href
           resolved == ResolveAgainst(fixed, baseUrl)
       IN IF ~resolved.ok \/ resolved.hostname = <<>> THEN Null ELSE Href(resolved)

isValidInternalUrl(url, baseOrigin) ==
  LET u == ParseUrl(url)
      base == ParseUrl(baseOrigin)
  IN /\ u.ok /\ base.ok
     /\ StripWww(u.hostname) = StripWww(base.hostname)
     /\ ~Includes(u.pathname, u.hostname)
     /\ ~Includes(u.pathname, base.hostname)

isFetchableUrl(url) ==
  LET u == ParseUrl(url) IN u.ok /\ ~Includes(u.pathname, u.hostname)

normalizeOrigin(url) ==
  LET u == ParseUrl(url)
  IN IF u.ok THEN <<u.protocol, "/", "/">> \o StripWww(u.hostname) ELSE url

isInternalUrl(baseUrl, targetUrl) == normalizeOrigin(baseUrl) = normalizeOrigin(targetUrl)

normalizeUrl(url) ==
  LET u == ParseUrl(url)
      path == u.pathname
      trimmed == IF EndsWith(path, <<"/">>) /\ Len(path) > 1
                   THEN SubSeq(path, 1, Len(path) - 1) ELSE path
  IN IF u.ok
       THEN Href([u EXCEPT !.hash = <<>>, !.search = <<>>,
                           !.pathname = IF trimmed = <<>> THEN <<"/">> ELSE trimmed])
       ELSE url

RECURSIVE extractLinksFrom(_, _, _)
extractLinksFrom(hrefs, baseUrl, links) ==
  IF hrefs = <<>> THEN links
  ELSE LET resolved == resolveUrl(Head(hrefs), baseUrl)
           baseOrigin == Origin(ParseUrl(baseUrl))
           keep == /\ resolved # Null
                   /\ isInternalUrl(baseUrl, resolved)
                   /\ isValidInternalUrl(resolved, baseOrigin)
       IN extractLinksFrom(Tail(hrefs), baseUrl,
                           IF keep THEN SetAdd(links, normalizeUrl(resolved)) ELSE links)

\* the a[href] pass and the raw href= pass see the same hrefs; the result is their union
extractLinks(html, baseUrl) == extractLinksFrom(html.links, baseUrl, <<>>)

(***************************************************************************)
(* The inputs of a crawl: the start URL, the options, the site             *)
(***************************************************************************)
EX == <<"example", ".", "com">>

\* an absolute URL of the crawled site
Site(path) == <<"https:", "/", "/">> \o EX \o path

\* the start URLs a job is started with (server.js accepts every string new URL parses)
StartUrls == {Site(<<"/">>), Site(<<"/", "about", "/", "/">>)}

WwwSite(path) == <<"https:", "/", "/", "www", ".">> \o EX \o path

\* the pages of the site: the href values of the anchors of the document each URL
\* returns when it is fetched with success, in document order
Web1 ==
    (Site(<<"/">>) :> << <<"/", "about">>, Site(<<"/", "about", "/">>),
                         <<"/", "about", "?", "v", "#", "f">>,
                         <<"https:", "/", "/", "other", ".", "com", "/", "x">>,
                         <<"/", "example", ".", "com", "/", "foo">> >>) @@
    (Site(<<"/", "about">>) :> << Site(<<"/">>), <<"/", "about">>,
                                  <<"/", "blog", "/", "/", "/">> >>) @@
    (Site(<<"/", "about", "/">>) :> << <<"/", "about">> >>) @@
    (Site(<<"/", "blog", "/">>) :> << <<"/", "blog">>, <<"/", "about">> >>)

\* a site that links to its www host, with a page that links to itself
Web2 ==
    (Site(<<"/">>) :> << WwwSite(<<"/", "about">>), <<"/", "about">> >>) @@
    (WwwSite(<<"/", "about">>) :> << Site(<<"/">>), <<"/", "blog">> >>) @@
    (Site(<<"/", "about">>) :> << <<"/", "about">> >>) @@
    (Site(<<"/", "about", "/">>) :> << Site(<<"/">>) >>)

Webs == {Web1, Web2}

\* the crawls the model follows: a start URL and the site it is served by
Crawls == {<<Site(<<"/">>), Web1>>, <<Site(<<"/">>), Web2>>,
           <<Site(<<"/", "about", "/", "/">>), Web1>>}

\* the document a successful fetch of url returns
PageHtml(w, url) == [links |-> IF url \in DOMAIN w THEN w[url] ELSE <<>>]

\* what one HTTP request of the fetcher can end in: a status, or a network error code
NoRaw == [status |-> 0, code |-> ""]

RawOutcomes ==
  { [status |-> 200, code |-> ""], [status |-> 404, code |-> ""],
    [status |-> 403, code |-> ""], [status |-> 500, code |-> ""],
    [status |-> 0, code |-> "ECONNRESET"], [status |-> 0, code |-> "ERR_BAD_RESPONSE"] }

\* what page.goto of the headless backend can end in
GotoOutcomes == {"throw", "noresponse", "404", "403", "500", "200"}

(***************************************************************************)
(* Sitemap documents of the site (fixed while one discovery runs)          *)
(***************************************************************************)
SM1 == <<"/", "sitemap", ".", "xml">>
SM2 == <<"/", "sitemap", "_", "index", ".", "xml">>
SM3 == <<"/", "sitemap", "-", "index", ".", "xml">>
SM4 == <<"/", "sitemap", "/", "index", ".", "xml">>
SUB1 == <<"/", "sub", "1", ".", "xml">>
SUB2 == <<"/", "sub", "2", ".", "xml">>

\* const sitemapPaths = [...]
sitemapPaths == <<SM1, SM2, SM3, SM4>>

\* subs.slice(0, 100)
SUB_SITEMAP_CAP == 100

UrlEntry(path) == [tag |-> "url", loc |-> Site(path)]
SitemapEntry(path) == [tag |-> "sitemap", loc |-> Site(path)]
Doc(entries) == [kind |-> "status", status |-> 200, entries |-> entries]
NotFound == [kind |-> "status", status |-> 404, entries |-> <<>>]
Throws == [kind |-> "throw", status |-> 0, entries |-> <<>>]

\* entries of the widest sitemap index of the model: one more than the cap
WideIndex == SUB_SITEMAP_CAP + 1

\* the sites: each maps the sitemap URLs it serves to a response; any other URL is a 404
Sites ==
  { [name |-> "none", docs |-> (Site(SM1) :> NotFound)],
    [name |-> "flat", docs |->
       (Site(SM1) :> Doc(<<UrlEntry(<<"/", "about", "/">>), UrlEntry(<<"/", "blog">>)>>))],
    [name |-> "index", docs |->
       (Site(SM1) :> Throws) @@
       (Site(SM2) :> Doc(<<SitemapEntry(SUB1), SitemapEntry(SUB2)>>)) @@
       (Site(SUB1) :> Doc(<<UrlEntry(<<"/", "about">>), UrlEntry(<<"/", "blog">>)>>)) @@
       (Site(SUB2) :> Doc(<<UrlEntry(<<"/", "blog", "/">>), UrlEntry(<<"/", "about", "/", "/">>)>>))],
    [name |-> "self", docs |-> (Site(SM1) :> Doc(<<SitemapEntry(SM1)>>))],
    [name |-> "suffix", docs |->
       (Site(SM1) :> Doc(<<SitemapEntry(<<"/", "sub", "1">>), SitemapEntry(SUB2)>>)) @@
       (Site(<<"/", "sub", "1">>) :> Doc(<<UrlEntry(<<"/", "about">>), UrlEntry(<<"/", "blog">>)>>)) @@
       (Site(SUB2) :> Doc(<<UrlEntry(<<"/", "foo">>), UrlEntry(<<"/", "blog", "/", "foo">>)>>))],
    [name |-> "cycle", docs |->
       (Site(SM1) :> Doc(<<SitemapEntry(SUB1)>>)) @@
       (Site(SUB1) :> Doc(<<SitemapEntry(SM1)>>))],
    [name |-> "wide", docs |->
       (Site(SM1) :> Doc([i \in 1..WideIndex |-> SitemapEntry(SUB1)])) @@
       (Site(SUB1) :> Doc(<<UrlEntry(<<"/", "about">>)>>))] }

\* the sites whose crawl the model follows beyond the sitemap discovery
CrawledSites == {"none", "index", "self"}

\* fetchUrl(sitemapUrl) on a site: the response once the fetcher's retries are over
SitemapResponse(st, url) == IF url \in DOMAIN st.docs THEN st.docs[url] ELSE NotFound

\* deepest nesting of parseSitemap calls the model follows
MaxSitemapDepth == 4

(***************************************************************************)
(* State of one crawlSite call                                             *)
(***************************************************************************)
VARIABLES
  startUrl,      \* crawlSite's startUrl
  usePuppeteer,  \* options.usePuppeteer !== false && PUPPETEER_DISABLE !== '1'
  maxPagesOpt,   \* options.maxPages (0: not given)
  site,          \* the sitemap documents the site serves
  web,           \* the pages the site serves
  pc,            \* where the call is
  attempt,       \* crawlSite's loop variable
  browsers,      \* browsers launched and not yet closed
  launches,      \* calls of pptr.launch
  httpRuns,      \* crawlSiteSimple calls
  visited,       \* the running crawl's visited set
  toVisit,       \* the running crawl's frontier
  pages,         \* the running crawl's pages
  cur,           \* the URL being fetched
  resp,          \* what the last page fetch returned to the crawl loop
  retryCount,    \* config.__retryCount of the current fetchUrl call
  raw,           \* what the last request of the current fetchUrl call ended in
  log,           \* the logger's entries
  fetches,       \* bag of the page fetches issued, <<url, backend>>
  smPath,        \* fetchSitemapUrls: index into sitemapPaths
  smUrls,        \* fetchSitemapUrls: urls
  smStack        \* the parseSitemap calls in progress, outermost first

crawlVars == <<startUrl, usePuppeteer, maxPagesOpt, site, web, pc, attempt, browsers, launches,
               httpRuns, visited, toVisit, pages, cur, resp, retryCount, raw, log,
               fetches,
               smPath, smUrls, smStack>>

\* const maxPages = options.maxPages || 2000
DEFAULT_MAX_PAGES == 2000
maxPages == IF maxPagesOpt = 0 THEN DEFAULT_MAX_PAGES ELSE maxPagesOpt

\* the page caps a crawl is started with, besides the default
MaxPagesCap == 2

\* fetcher: const MAX_RETRIES = 3
MAX_RETRIES == 3

\* createFetcher: options.maxRetries || MAX_RETRIES (fetchUrl passes no maxRetries)
maxRetries == MAX_RETRIES

\* const RETRY_DELAY = 1000 (milliseconds)
RETRY_DELAY == 1000

\* the wait before the retry that makes config.__retryCount equal to count
RetryDelay(count) == RETRY_DELAY * count

Info(msg) == [level |-> "info", msg |-> msg]
Error(msg) == [level |-> "error", msg |-> msg]

NoResp == [kind |-> "none", status |-> 0, html |-> [links |-> <<>>]]

Frame(url) == [url |-> url, urls |-> <<>>, subs |-> <<>>, i |-> 1]

\* a loop that forgets to record the URL it fetches
MarkVisited_Forgets(v, url) == v

\* visited.add(url)
MarkVisited(v, url) == v \cup {url}

\* a finally block that leaves the browser open
Close_Leaks(open) == open

\* finally { await browser.close(); }
Close(open) == open - 1

\* a loop that runs until the frontier is empty
KeepCrawling_IgnoresCap(queue, ps) == queue # <<>>

\* while (toVisit.length > 0 && pages.length < maxPages)
KeepCrawling(queue, ps) == queue # <<>> /\ Len(ps) < maxPages

\* a loop that enqueues every link it finds
Enqueue_EveryLink(links, v, queue, normOrigin) ==
  queue \o [i \in 1..Len(links) |-> normalizeUrl(links[i])]

RECURSIVE Enqueue(_, _, _, _)
\* the for (const link of links) loop of both crawl loops
Enqueue(links, v, queue, normOrigin) ==
  IF links = <<>> THEN queue
  ELSE LET link == Head(links)
           normalized == normalizeUrl(link)
           push == /\ normalized \notin v
                   /\ ~Has(queue, normalized)
                   /\ normalizeOrigin(link) = normOrigin
                   /\ isFetchableUrl(normalized)
       IN Enqueue(Tail(links), v, IF push THEN Append(queue, normalized) ELSE queue,
                  normOrigin)

\* a crawl that visits what the sitemap lists and nothing else
SeedFromSitemap_OnlySitemap(us, v, queue) == us

RECURSIVE SeedFromSitemap(_, _, _)
\* crawlSiteSimple: for (const u of sitemapUrls)
SeedFromSitemap(us, v, queue) ==
  IF us = <<>> THEN queue
  ELSE LET u == Head(us)
           push == u \notin v /\ ~Has(queue, u) /\ isFetchableUrl(u)
       IN SeedFromSitemap(Tail(us), v, IF push THEN Append(queue, u) ELSE queue)

\* the feed filter of parseSitemap
FeedLike(loc) ==
  \/ EndsWith(loc, <<".", "rss">>) \/ EndsWith(loc, <<".", "xml">>)
  \/ Includes(loc, <<"/", "rss">>) \/ Includes(loc, <<"/", "feed">>)

\* [...new Set(seq)]: the members of seq in the order of their first occurrence
Distinct(seq) ==
  LET first == {i \in 1..Len(seq) : \A j \in 1..(i - 1) : seq[j] # seq[i]}
      nth(k) == CHOOSE i \in first : Cardinality({j \in first : j < i}) = k - 1
      n == Cardinality(first)
  IN IF n = 0 THEN <<>> ELSE SubSeq([k \in 1..n |-> seq[nth(k)]], 1, n)

\* $(selector).each(...) of parseSitemap over the entries with a tag in tags
PageLocs(entries, tags, origin, urls) ==
  LET keep(e) == /\ e.tag \in tags
                 /\ e.loc # <<>>
                 /\ isInternalUrl(origin, e.loc)
                 /\ ~FeedLike(e.loc)
      kept == SelectSeq(entries, keep)
      n == Len(kept)
  IN IF n = 0 THEN urls
     ELSE Distinct(urls \o SubSeq([k \in 1..n |-> normalizeUrl(kept[k].loc)], 1, n))

\* $('sitemap loc').each(...)
SubLocs(entries, origin) ==
  LET keep(e) == e.tag = "sitemap" /\ e.loc # <<>> /\ isInternalUrl(origin, e.loc)
      kept == SelectSeq(entries, keep)
      n == Len(kept)
  IN IF n = 0 THEN <<>> ELSE SubSeq([k \in 1..n |-> kept[k].loc], 1, n)

AllTags == {"url", "sitemap", "none"}

\* the urls parseSitemap reads from one document, before it expands the sub-sitemaps
DocUrls(entries, origin) ==
  LET fromUrl == PageLocs(entries, {"url"}, origin, <<>>)
      noUrlLoc == \A i \in 1..Len(entries) : entries[i].tag # "url"
  IN IF Len(entries) > 0 /\ noUrlLoc
       THEN PageLocs(entries, AllTags, origin, fromUrl)
       ELSE fromUrl

\* subs.slice(0, 100)
SubsToExpand(subs) ==
  IF Len(subs) > SUB_SITEMAP_CAP THEN SubSeq(subs, 1, SUB_SITEMAP_CAP) ELSE subs

(***************************************************************************)
(* State of one runCloneJob call                                           *)
(***************************************************************************)
VARIABLES
  jpc,             \* the stage the job is at
  options,         \* runCloneJob's options: css, images, fonts, content
  crawled,         \* the pages crawlSite returned
  jpages,          \* pages, after the HTML filter
  htmlFiles,       \* the files extractHtml saved
  rewrittenPages,  \* the pages the rewrite loop has written back
  consolidatedCss, \* the consolidated stylesheet
  imageMap,        \* remote image URL -> local path (its keys)
  fontMap,         \* remote font URL -> local path (its keys)
  events,          \* the fetches and rewrite calls of the job, in order
  jobLog,          \* the error entries of the job's logger
  jobError         \* the message of the error that failed the job

jobVars == <<jpc, options, crawled, jpages, htmlFiles, rewrittenPages, consolidatedCss,
             imageMap, fontMap, events, jobLog, jobError>>

(***************************************************************************)
(* State of one run of an asset downloader, and of one run of the rewriter *)
(***************************************************************************)
VARIABLES
  dlPc,     \* "start" before the downloader runs, "done" after
  dlKind,   \* which downloader: "image", "font" or "script"
  dlUrls,   \* the URLs it is called with
  dlFails,  \* the URLs whose download fails
  dlOut,    \* its result: the map it returns, the downloads it issued, the files written
  rwPc,     \* "start", "once" after the first rewriting pass, "twice" after the second
  rwSite,   \* the pages, images and fonts of the cloned site
  rwDoc,    \* the page that is rewritten
  rwCss,    \* the stylesheet that is rewritten
  rwOnce,   \* the page and the stylesheet after one pass
  rwTwice,  \* the page and the stylesheet after two passes
  fnPc,     \* one call of a URL helper: "start", "once" after a first application, "done"
  fnOp,     \* the helper that is called: "resolveUrl", "normalizeUrl" or "isInternalUrl"
  fnArgs,   \* its arguments
  fnOut,    \* the values returned so far, in order
  jobs,     \* server.js: the jobs Map, jobId -> [status, progress, outputDir]
  posts,    \* the status codes of the replies to POST /api/clone, in order
  runs,     \* the runCloneJob calls the server started, in order: [jobId, pc, items]
  outputs,  \* the output directories on disk: jobId -> the items inside
  dls,      \* the GET /api/download requests, in order: [jobId, type, pc, reply, sent, spoiled]
  zips      \* the zip files under OUTPUT_BASE: zipPath -> the requests writing to the file

dlVars == <<dlPc, dlKind, dlUrls, dlFails, dlOut>>

rwVars == <<rwPc, rwSite, rwDoc, rwCss, rwOnce, rwTwice>>

fnVars == <<fnPc, fnOp, fnArgs, fnOut>>

srvVars == <<jobs, posts, runs, outputs, dls, zips>>

\* the variables of the other parts of the model
NotCrawl == <<jobVars, dlVars, rwVars, fnVars, srvVars>>

NotJob == <<crawlVars, dlVars, rwVars, fnVars, srvVars>>

NotDl == <<crawlVars, jobVars, rwVars, fnVars, srvVars>>

NotRw == <<crawlVars, jobVars, dlVars, fnVars, srvVars>>

NotFn == <<crawlVars, jobVars, dlVars, rwVars, srvVars>>

NotSrv == <<crawlVars, jobVars, dlVars, rwVars, fnVars>>

vars == <<crawlVars, jobVars, dlVars, rwVars, fnVars, srvVars>>

(***************************************************************************)
(* crawlSite                                                               *)
(***************************************************************************)
\* the state at the call of crawlSite
CrawlEntry ==
  /\ pc = "crawlSite"
  /\ attempt = 0
  /\ browsers = 0
  /\ launches = 0
  /\ httpRuns = 0
  /\ visited = {}
  /\ toVisit = <<>>
  /\ pages = <<>>
  /\ cur = Null
  /\ resp = NoResp
  /\ retryCount = 0
  /\ raw = NoRaw
  /\ log = <<>>
  /\ fetches = EmptyBag
  /\ smPath = 0
  /\ smUrls = <<>>
  /\ smStack = <<>>

NoOut == [saved |-> <<>>, fetched |-> <<>>, written |-> <<>>, seen |-> {}, disk |-> {}]

\* no downloader is running
DlIdle ==
  /\ dlPc = "idle"
  /\ dlKind = "image"
  /\ dlUrls = <<>>
  /\ dlFails = {}
  /\ dlOut = NoOut

NoDoc == [url |-> <<>>, imgs |-> <<>>, links |-> <<>>, stylesheets |-> <<>>]

\* no URL helper is being called on its own
FnIdle ==
  /\ fnPc = "idle"
  /\ fnOp = ""
  /\ fnArgs = <<>>
  /\ fnOut = <<>>

\* the server: const jobs = new Map(), no request yet, an empty output directory
SrvIdle ==
  /\ jobs = <<>>
  /\ posts = <<>>
  /\ runs = <<>>
  /\ outputs = <<>>
  /\ dls = <<>>
  /\ zips = <<>>

\* no rewriting is running
RwIdle ==
  /\ rwPc = "idle"
  /\ rwSite = [pages |-> <<>>, images |-> <<>>, fonts |-> <<>>]
  /\ rwDoc = NoDoc
  /\ rwCss = <<>>
  /\ rwOnce = [html |-> NoDoc, css |-> <<>>]
  /\ rwTwice = [html |-> NoDoc, css |-> <<>>]

\* no job is running
JobIdle ==
  /\ jpc = "idle"
  /\ options = [css |-> TRUE, images |-> TRUE, fonts |-> TRUE, content |-> TRUE]
  /\ crawled = <<>>
  /\ jpages = <<>>
  /\ htmlFiles = <<>>
  /\ rewrittenPages = 0
  /\ consolidatedCss = ""
  /\ imageMap = {}
  /\ fontMap = {}
  /\ events = <<>>
  /\ jobLog = <<>>
  /\ jobError = ""

\* no crawl is running
CrawlIdle ==
  /\ startUrl = Site(<<"/">>)
  /\ usePuppeteer = FALSE
  /\ maxPagesOpt = 0
  /\ site = CHOOSE st \in Sites : st.name = "none"
  /\ web = Web1
  /\ CrawlEntry

CrawlInit ==
  /\ startUrl \in StartUrls
  /\ usePuppeteer \in BOOLEAN
  /\ maxPagesOpt \in {0, MaxPagesCap}
  /\ site \in {st \in Sites : st.name \in CrawledSites}
  /\ web \in Webs
  /\ <<startUrl, web>> \in Crawls
  /\ CrawlEntry

\* crawlSiteSimple up to its call of fetchSitemapUrls, after the entries in logged
\* were appended to the log by the caller
EnterSimple(logged) ==
  /\ log' = Append(logged, Info("Using HTTP mode"))
  /\ httpRuns' = httpRuns + 1
  /\ visited' = {}
  /\ toVisit' = <<normalizeUrl(startUrl)>>
  /\ pages' = <<>>
  /\ smPath' = 1
  /\ smUrls' = <<>>
  /\ smStack' = <<Frame(Href(ResolveAgainst(sitemapPaths[1], Origin(ParseUrl(startUrl)) \o <<"/">>)))>>
  /\ pc' = "sm_fetch"

\* an attempt loop that gives up after the first failure
PuppeteerFailed_OneAttempt ==
  LET logged == Append(log, Info("Puppeteer failed, falling back to HTTP"))
  IN EnterSimple(logged) /\ UNCHANGED attempt

\* the catch block of crawlSite's attempt loop
PuppeteerFailed ==
  LET logged == Append(log, Info("Puppeteer failed, falling back to HTTP"))
  IN IF attempt = 2
       THEN EnterSimple(logged) /\ UNCHANGED attempt
       ELSE /\ attempt' = attempt + 1
            /\ log' = Append(logged, Info("Retry"))
            /\ pc' = "launch"
            /\ UNCHANGED <<httpRuns, visited, toVisit, pages, smPath, smUrls, smStack>>

CrawlSite ==
  /\ pc = "crawlSite"
  /\ IF usePuppeteer
       THEN /\ attempt' = 1
            /\ log' = Append(log, Info("Starting crawl (Puppeteer)"))
            /\ pc' = "launch"
            /\ UNCHANGED <<httpRuns, visited, toVisit, pages, smPath, smUrls, smStack>>
       ELSE EnterSimple(log) /\ UNCHANGED attempt
  /\ UNCHANGED <<startUrl, usePuppeteer, maxPagesOpt, site, web, browsers, launches, cur, resp,
                 retryCount, raw, fetches>>
  /\ UNCHANGED NotCrawl

\* crawlSitePuppeteer: pptr.launch
PptrLaunch ==
  /\ pc = "launch"
  /\ launches' = launches + 1
  /\ \/ /\ browsers' = browsers + 1
        /\ visited' = {}
        /\ toVisit' = <<normalizeUrl(startUrl)>>
        /\ pages' = <<>>
        /\ pc' = "setup"
        /\ UNCHANGED <<attempt, log, httpRuns, smPath, smUrls, smStack>>
     \/ /\ PuppeteerFailed
        /\ UNCHANGED browsers
  /\ UNCHANGED <<startUrl, usePuppeteer, maxPagesOpt, site, web, cur, resp, retryCount,
                 raw, fetches>>
  /\ UNCHANGED NotCrawl

\* crawlSitePuppeteer: newPage .. setRequestInterception; a throw runs the finally block
PptrSetup ==
  /\ pc = "setup"
  /\ \/ /\ pc' = "pptr_loop"
        /\ UNCHANGED <<attempt, log, httpRuns, browsers, visited, toVisit, pages, smPath,
                       smUrls, smStack>>
     \/ /\ browsers' = Close(browsers)
        /\ PuppeteerFailed
  /\ UNCHANGED <<startUrl, usePuppeteer, maxPagesOpt, site, web, launches, cur, resp, retryCount,
                 raw, fetches>>
  /\ UNCHANGED NotCrawl

\* one pass through the head of the while loop of crawlSitePuppeteer
PptrLoop ==
  /\ pc = "pptr_loop"
  /\ IF KeepCrawling(toVisit, pages)
       THEN LET url == Head(toVisit)
            IN /\ toVisit' = Tail(toVisit)
               /\ IF url \in visited
                    THEN UNCHANGED <<visited, log, cur, fetches, pc>>
                    ELSE /\ visited' = MarkVisited(visited, url)
                         /\ log' = Append(log, Info("Fetching"))
                         /\ cur' = url
                         /\ fetches' = fetches (+) SetToBag({<<url, "puppeteer">>})
                         /\ pc' = "pptr_goto"
               /\ UNCHANGED browsers
       ELSE /\ log' = Append(log, Info("Crawled"))
            /\ browsers' = Close(browsers)
            /\ pc' = "returned"
            /\ UNCHANGED <<toVisit, visited, cur, fetches>>
  /\ UNCHANGED <<startUrl, usePuppeteer, maxPagesOpt, site, web, attempt, launches, httpRuns,
                 pages, resp, retryCount, raw, smPath, smUrls, smStack>>
  /\ UNCHANGED NotCrawl

\* page.goto and, for a page that loaded, the capture of its content
PptrGoto ==
  /\ pc = "pptr_goto"
  /\ \E o \in GotoOutcomes :
       \/ /\ o = "200"
          /\ resp' = [kind |-> "status", status |-> 200, html |-> PageHtml(web, cur)]
       \/ /\ o \in {"404", "403", "500"}
          /\ resp' = [NoResp EXCEPT !.kind = "status",
                                    !.status = CASE o = "404" -> 404 [] o = "403" -> 403
                                                 [] OTHER -> 500]
       \/ /\ o \in {"throw", "noresponse"}
          /\ resp' = [NoResp EXCEPT !.kind = o]
  /\ pc' = "pptr_handle"
  /\ UNCHANGED <<startUrl, usePuppeteer, maxPagesOpt, site, web, attempt, browsers, launches,
                 httpRuns, visited, toVisit, pages, cur, retryCount, raw, log, fetches,
                 smPath, smUrls, smStack>>
  /\ UNCHANGED NotCrawl

\* what both crawl loops do with the outcome of a page fetch
HandleResponse(backend) ==
  IF resp.kind = "throw"
    THEN /\ log' = Append(log, Error("Error fetching"))
         /\ UNCHANGED <<pages, toVisit>>
  ELSE IF resp.kind = "noresponse" \/ resp.status >= 400
    THEN /\ log' = IF resp.kind = "status" /\ resp.status = 404 THEN log
                   ELSE Append(log, Error("Failed to load"))
         /\ UNCHANGED <<pages, toVisit>>
  ELSE /\ pages' = Append(pages, [url |-> cur, html |-> resp.html, via |-> backend])
       /\ toVisit' = Enqueue(extractLinks(resp.html, cur), visited, toVisit,
                             normalizeOrigin(startUrl))
       /\ UNCHANGED log

PptrHandle ==
  /\ pc = "pptr_handle"
  /\ HandleResponse("puppeteer")
  /\ pc' = "pptr_loop"
  /\ UNCHANGED <<startUrl, usePuppeteer, maxPagesOpt, site, web, attempt, browsers, launches,
                 httpRuns, visited, cur, resp, retryCount, raw, fetches, smPath, smUrls,
                 smStack>>
  /\ UNCHANGED NotCrawl

(***************************************************************************)
(* fetchSitemapUrls / parseSitemap                                         *)
(***************************************************************************)
baseOrigin == Origin(ParseUrl(startUrl))

SitemapUrlAt(i) == Href(ResolveAgainst(sitemapPaths[i], baseOrigin \o <<"/">>))

Top == smStack[Len(smStack)]

\* a parseSitemap call returns found to its caller: to the parseSitemap call that
\* expands it, or to fetchSitemapUrls, which ends at the first path that gave a URL
\* and then hands the URLs to crawlSiteSimple
SitemapReturn(found) ==
  IF Len(smStack) > 1
    THEN LET parent == smStack[Len(smStack) - 1]
         IN /\ smStack' = [SubSeq(smStack, 1, Len(smStack) - 1) EXCEPT
                              ![Len(smStack) - 1] =
                                 [parent EXCEPT !.urls = AddAll(parent.urls, found)]]
            /\ pc' = "sm_subs"
            /\ UNCHANGED <<smPath, smUrls, log, toVisit>>
    ELSE LET urls == AddAll(smUrls, found)
         IN /\ smUrls' = urls
            /\ IF urls = <<>> /\ smPath < Len(sitemapPaths)
                 THEN /\ smPath' = smPath + 1
                      /\ smStack' = <<Frame(SitemapUrlAt(smPath + 1))>>
                      /\ pc' = "sm_fetch"
                      /\ UNCHANGED <<log, toVisit>>
                 ELSE /\ smStack' = <<>>
                      /\ log' = IF urls # <<>> THEN Append(log, Info("Found URLs in sitemap"))
                                ELSE log
                      /\ toVisit' = SeedFromSitemap(urls, visited, toVisit)
                      /\ pc' = "http_loop"
                      /\ UNCHANGED smPath

\* parseSitemap from its fetchUrl call to the start of the loop over the sub-sitemaps
SitemapFetch ==
  /\ pc = "sm_fetch"
  /\ LET r == SitemapResponse(site, Top.url)
     IN IF r.kind = "throw" \/ r.status # 200
          THEN SitemapReturn(<<>>)
          ELSE /\ smStack' = [smStack EXCEPT ![Len(smStack)] =
                                [Top EXCEPT !.urls = DocUrls(r.entries, baseOrigin),
                                            !.subs = SubLocs(r.entries, baseOrigin)]]
               /\ pc' = "sm_subs"
               /\ UNCHANGED <<smPath, smUrls, log, toVisit>>
  /\ UNCHANGED <<startUrl, usePuppeteer, maxPagesOpt, site, web, attempt, browsers, launches,
                 httpRuns, visited, pages, cur, resp, retryCount, raw, fetches>>
  /\ UNCHANGED NotCrawl

\* one pass through the head of for (const sub of subs.slice(0, 100))
SitemapSub ==
  /\ pc = "sm_subs"
  /\ IF Top.i <= Len(SubsToExpand(Top.subs))
       THEN /\ Len(smStack) < MaxSitemapDepth
            /\ smStack' = Append([smStack EXCEPT ![Len(smStack)] = [Top EXCEPT !.i = Top.i + 1]],
                                 Frame(Top.subs[Top.i]))
            /\ pc' = "sm_fetch"
            /\ UNCHANGED <<smPath, smUrls, log, toVisit>>
       ELSE SitemapReturn(Top.urls)
  /\ UNCHANGED <<startUrl, usePuppeteer, maxPagesOpt, site, web, attempt, browsers, launches,
                 httpRuns, visited, pages, cur, resp, retryCount, raw, fetches>>
  /\ UNCHANGED NotCrawl

(***************************************************************************)
(* crawlSiteSimple's loop and the fetcher                                  *)
(***************************************************************************)
\* one pass through the head of the while loop of crawlSiteSimple
HttpLoop ==
  /\ pc = "http_loop"
  /\ IF KeepCrawling(toVisit, pages)
       THEN LET url == Head(toVisit)
            IN /\ toVisit' = Tail(toVisit)
               /\ IF url \in visited
                    THEN UNCHANGED <<visited, log, cur, fetches, pc>>
                    ELSE /\ visited' = MarkVisited(visited, url)
                         /\ log' = Append(log, Info("Fetching"))
                         /\ cur' = url
                         /\ fetches' = fetches (+) SetToBag({<<url, "http">>})
                         /\ pc' = "http_req"
       ELSE /\ log' = Append(log, Info("Crawled"))
            /\ pc' = "returned"
            /\ UNCHANGED <<toVisit, visited, cur, fetches>>
  /\ UNCHANGED <<startUrl, usePuppeteer, maxPagesOpt, site, web, attempt, browsers, launches,
                 httpRuns, pages, resp, retryCount, raw, smPath, smUrls, smStack>>
  /\ UNCHANGED NotCrawl

\* a fetcher that rejects every status from 400 on
validateStatus_Below400(status) == status < 400

\* validateStatus: status => status < 500
validateStatus(status) == status < 500

isRetryable_NetworkOnly(error) ==
  error.code \in {"EPIPE", "ECONNRESET", "ETIMEDOUT", "ECONNREFUSED", "ENOTFOUND", "ENETUNREACH"}

\* the interceptor's isRetryable
isRetryable(error) ==
  \/ error.code \in {"EPIPE", "ECONNRESET", "ETIMEDOUT", "ECONNREFUSED", "ENOTFOUND", "ENETUNREACH"}
  \/ error.status >= 500

\* one request of fetchUrl: the response is returned, or the interceptor retries or rejects
HttpRequest ==
  /\ pc = "http_req"
  /\ \E r \in RawOutcomes :
       /\ raw' = r
       /\ IF r.status # 0 /\ validateStatus(r.status)
            THEN /\ resp' = [kind |-> "status", status |-> r.status,
                               html |-> IF r.status = 200 THEN PageHtml(web, cur)
                                        ELSE NoResp.html]
                 /\ pc' = "http_handle"
                 /\ retryCount' = 0
            ELSE IF retryCount < maxRetries /\ isRetryable(r)
              THEN /\ retryCount' = retryCount + 1
                   /\ UNCHANGED <<resp, pc>>
              ELSE /\ resp' = [NoResp EXCEPT !.kind = "throw"]
                   /\ pc' = "http_handle"
                   /\ retryCount' = 0
  /\ UNCHANGED <<startUrl, usePuppeteer, maxPagesOpt, site, web, attempt, browsers, launches,
                 httpRuns, visited, toVisit, pages, cur, log, fetches, smPath, smUrls,
                 smStack>>
  /\ UNCHANGED NotCrawl

\* fetchUrl has returned or thrown: its request config is gone
HttpHandle ==
  /\ pc = "http_handle"
  /\ HandleResponse("http")
  /\ raw' = NoRaw
  /\ pc' = "http_loop"
  /\ UNCHANGED <<startUrl, usePuppeteer, maxPagesOpt, site, web, attempt, browsers, launches,
                 httpRuns, visited, cur, resp, retryCount, fetches, smPath, smUrls, smStack>>
  /\ UNCHANGED NotCrawl

Next ==
  \/ CrawlSite
  \/ PptrLaunch
  \/ PptrSetup
  \/ PptrLoop
  \/ PptrGoto
  \/ PptrHandle
  \/ SitemapFetch
  \/ SitemapSub
  \/ HttpLoop
  \/ HttpRequest
  \/ HttpHandle

Init == CrawlInit /\ JobIdle /\ DlIdle /\ RwIdle /\ FnIdle /\ SrvIdle

Spec == Init /\ [][Next]_vars

\* sitemap discovery alone, over every sitemap layout of Sites
SitemapInit ==
  /\ startUrl = Site(<<"/">>)
  /\ usePuppeteer = FALSE
  /\ maxPagesOpt = 0
  /\ site \in Sites
  /\ web = Web1
  /\ CrawlEntry
  /\ JobIdle
  /\ DlIdle
  /\ RwIdle
  /\ FnIdle
  /\ SrvIdle

SitemapNext == CrawlSite \/ SitemapFetch \/ SitemapSub

SpecSitemap == SitemapInit /\ [][SitemapNext]_vars

(***************************************************************************)
(* Properties of the crawl                                                 *)
(***************************************************************************)
FetchedUrls == {f[1] : f \in BagToSet(fetches)}

FetchCount(url) ==
  LET fs == {f \in BagToSet(fetches) : f[1] = url}
      RECURSIVE Sum(_)
      Sum(S) == IF S = {} THEN 0
                ELSE LET f == CHOOSE x \in S : TRUE IN CopiesIn(f, fetches) + Sum(S \ {f})
  IN Sum(fs)

\* C1: during one crawlSite call no two page fetches are issued for URLs with the same
\* normalized identity (fragment and query stripped, one trailing slash trimmed): every
\* fetched URL is fetched once, and no other fetched URL normalizes to the same identity
C1_OneFetchPerIdentity ==
  \A u \in FetchedUrls :
     /\ FetchCount(u) = 1
     /\ \A w \in FetchedUrls : normalizeUrl(w) = normalizeUrl(u) => w = u

InLoop == pc \in {"pptr_loop", "pptr_goto", "pptr_handle", "http_loop", "http_req", "http_handle"}

Range(seq) == {seq[i] : i \in 1..Len(seq)}

\* the URLs a crawl of the site can ever hold: those it holds, and every link target
TargetsOf ==
  [w \in Webs |->
     UNION {{normalizeUrl(l) : l \in Range(extractLinks(PageHtml(w, u), u))} : u \in DOMAIN w}]

LinkTargets == TargetsOf[web]

Unvisited == (LinkTargets \cup Range(toVisit)) \ visited

PcRank == CASE pc \in {"pptr_goto", "http_req"} -> 2
            [] pc \in {"pptr_handle", "http_handle"} -> 1
            [] OTHER -> 0

\* the measure of the crawl loop, compared in lexicographic order
Rank == <<Cardinality(Unvisited), PcRank, maxRetries - retryCount, Len(toVisit)>>

LexLess(a, b) ==
  \E i \in 1..Len(a) : a[i] < b[i] /\ \A j \in 1..(i - 1) : a[j] = b[j]

FailureEntries == SelectSeq(log, LAMBDA e : e.msg = "Puppeteer failed, falling back to HTTP")

HeadlessPcs == {"launch", "setup", "pptr_loop", "pptr_goto", "pptr_handle"}

\* C3: with the headless backend enabled at most two headless attempts are made; the
\* HTTP backend runs at most once, and only after exactly two headless attempts have
\* thrown; from then on no browser is open or launched, every page of the result is
\* fetched by the HTTP backend, and each failure is in the log as an info entry
C3_TwoAttemptsThenHttpOnce ==
  /\ attempt <= 2 /\ launches <= 2 /\ httpRuns <= 1
  /\ (usePuppeteer /\ httpRuns = 1) =>
        /\ attempt = 2 /\ launches = 2
        /\ browsers = 0 /\ pc \notin HeadlessPcs
        /\ \A i \in 1..Len(pages) : pages[i].via = "http"
        /\ \A f \in BagToSet(fetches) : f[2] = "http"
        /\ Len(FailureEntries) = 2
        /\ \A i \in 1..Len(FailureEntries) : FailureEntries[i].level = "info"

\* both headless attempts threw and the HTTP backend returned a page
C3_Witness ==
  /\ usePuppeteer /\ httpRuns = 1 /\ launches = 2
  /\ pc = "returned" /\ Len(pages) >= 1

\* C4: sitemap discovery terminates and expands at most 100 child sitemaps per sitemap
\* document, also for a sitemap index that lists itself or a cycle of sitemaps: no
\* sitemap is parsed again while a parse of it is in progress (the site answers each
\* URL the same way, so a parse that re-enters itself never returns), and no parse
\* goes beyond its 100th child
C4_SitemapDiscoveryBounded ==
  /\ \A i \in 1..Len(smStack) : \A j \in 1..Len(smStack) :
        i # j => smStack[i].url # smStack[j].url
  /\ \A i \in 1..Len(smStack) : smStack[i].i <= SUB_SITEMAP_CAP + 1

Failing(r) == r.kind \in {"throw", "noresponse"} \/ (r.kind = "status" /\ r.status >= 400)

Is404(r) == r.kind = "status" /\ r.status = 404

\* C9: in both backends a page fetch that ends in 404 is not retried and adds no log
\* entry; a fetch that ends in another status >= 400 or throws adds exactly one
\* error entry; either way the page is not added to the result, nothing is enqueued
\* and the crawl is back at the head of its loop
C9_FailedFetchSkipped ==
  /\ [][(pc \in {"pptr_handle", "http_handle"} /\ Failing(resp)) =>
          /\ pages' = pages
          /\ toVisit' = toVisit
          /\ pc' \in {"pptr_loop", "http_loop"}
          /\ IF Is404(resp) THEN log' = log
               ELSE /\ Len(log') = Len(log) + 1
                    /\ SubSeq(log', 1, Len(log)) = log
                    /\ log'[Len(log')].level = "error"]_vars
  /\ [][(pc = "http_req" /\ raw'.status = 404) =>
          (pc' = "http_handle" /\ Is404(resp') /\ retryCount' = 0)]_vars

\* a 404 was skipped without a log entry while the frontier still holds a URL
C9_Witness ==
  /\ pc \in {"pptr_loop", "http_loop"}
  /\ Is404(resp)
  /\ toVisit # <<>>
  /\ Len(pages) >= 1
  /\ \A i \in 1..Len(log) : log[i].level # "error"

(***************************************************************************)
(* runCloneJob                                                             *)
(***************************************************************************)
\* what the HTML filter looks for in a page's html
HtmlMarks == {"<html", "<!doctype", "<body", "</body>"}

\* the documents a crawl can return: a full page, a fragment with a body, and a feed
JobDocs == { {"<html", "<body", "</body>"}, {"<body", "</body>"}, {} }

\* the most pages the crawl of a job returns
MaxJobPages == 2

\* the results crawlSite can return to a job
JobPageUrl(i) ==
  CASE i = 1 -> Site(<<"/">>) [] i = 2 -> Site(<<"/", "about">>) [] OTHER -> Site(<<"/", "blog">>)

CrawlResults ==
  UNION {{[i \in 1..n |-> [url |-> JobPageUrl(i), html |-> docs[i]]] : docs \in [1..n -> JobDocs]} :
           n \in 0..MaxJobPages}

JobOptions ==
  { [css |-> TRUE, images |-> TRUE, fonts |-> TRUE, content |-> TRUE],
    [css |-> FALSE, images |-> TRUE, fonts |-> TRUE, content |-> FALSE],
    [css |-> TRUE, images |-> FALSE, fonts |-> FALSE, content |-> TRUE] }

\* the image and font URLs the pages of a job refer to
JobImageUrls == {"hero.png"}
JobFontUrls == {"a.woff2"}

\* pages.filter(p => ...): h.includes('<html') || h.includes('<!doctype') || ...
IsHtmlPage(p) ==
  \/ "<html" \in p.html
  \/ "<!doctype" \in p.html
  \/ ("<body" \in p.html /\ "</body>" \in p.html)

\* a job that gives up when at most one page is left
NoPages_AtMostOne(ps) == Len(ps) <= 1

\* pages.length === 0
NoPages(ps) == Len(ps) = 0

\* the order of the stages of runCloneJob
Stages == <<"crawl", "html", "css", "images", "fonts", "scripts", "rewriteCss",
            "rewriteHtml", "content", "theme", "manifest", "completed">>

\* a job that rewrites the stylesheet before it has downloaded the fonts
StageAfter_RewriteBeforeFonts(stage) ==
  LET order == <<"crawl", "html", "css", "images", "rewriteCss", "fonts", "scripts",
                 "rewriteHtml", "content", "theme", "manifest", "completed">>
      i == CHOOSE k \in 1..Len(order) : order[k] = stage
  IN order[i + 1]

\* the stage that follows stage in runCloneJob
StageAfter(stage) ==
  LET i == CHOOSE k \in 1..Len(Stages) : Stages[k] = stage
  IN Stages[i + 1]

Fetch(what) == [kind |-> "fetch", what |-> what, imageMap |-> {}, fontMap |-> {}]

Rewrite(what) == [kind |-> "rewrite", what |-> what, imageMap |-> imageMap, fontMap |-> fontMap]

\* the catch block of runCloneJob: the error is logged and thrown to the caller
FailJob(msg) ==
  /\ jobError' = msg
  /\ jobLog' = Append(jobLog, "Clone failed")
  /\ jpc' = "failed"

JobInit ==
  /\ jpc = "crawl"
  /\ options \in JobOptions
  /\ crawled = <<>>
  /\ jpages = <<>>
  /\ htmlFiles = <<>>
  /\ rewrittenPages = 0
  /\ consolidatedCss = ""
  /\ imageMap = {}
  /\ fontMap = {}
  /\ events = <<>>
  /\ jobLog = <<>>
  /\ jobError = ""

\* crawlSite returns; the pages are filtered; a job without pages fails
JobCrawl ==
  /\ jpc = "crawl"
  /\ \E ps \in CrawlResults :
       LET kept == SelectSeq(ps, IsHtmlPage)
       IN /\ crawled' = ps
          /\ jpages' = kept
          /\ IF NoPages(kept)
               THEN FailJob("No pages could be fetched")
               ELSE jpc' = StageAfter(jpc) /\ UNCHANGED <<jobLog, jobError>>
  /\ UNCHANGED <<options, htmlFiles, rewrittenPages, consolidatedCss, imageMap, fontMap,
                 events>>
  /\ UNCHANGED NotJob

\* const htmlFiles = extractHtml(pages, outputDir): not inside a try block
JobExtractHtml ==
  /\ jpc = "html"
  /\ \/ /\ htmlFiles' = [i \in 1..Len(jpages) |-> jpages[i].url]
        /\ jpc' = StageAfter(jpc)
        /\ UNCHANGED <<jobLog, jobError>>
     \/ /\ FailJob("writeFileSync")
        /\ UNCHANGED htmlFiles
  /\ UNCHANGED <<options, crawled, jpages, rewrittenPages, consolidatedCss, imageMap,
                 fontMap, events>>
  /\ UNCHANGED NotJob

\* 3. Extract CSS: the linked stylesheets are fetched; a throw empties the stylesheet
JobCss ==
  /\ jpc = "css"
  /\ IF options.css
       THEN /\ events' = Append(events, Fetch("css"))
            /\ \/ /\ consolidatedCss' = "css"
                  /\ UNCHANGED jobLog
               \/ /\ consolidatedCss' = ""
                  /\ jobLog' = Append(jobLog, "CSS extraction")
       ELSE UNCHANGED <<events, consolidatedCss, jobLog>>
  /\ jpc' = StageAfter(jpc)
  /\ UNCHANGED <<options, crawled, jpages, htmlFiles, rewrittenPages, imageMap, fontMap,
                 jobError>>
  /\ UNCHANGED NotJob

\* 4. Extract images: imageMap is replaced by what extractImages returns, unless it throws
JobImages ==
  /\ jpc = "images"
  /\ IF options.images
       THEN /\ events' = Append(events, Fetch("image"))
            /\ \/ /\ imageMap' \in SUBSET JobImageUrls
                  /\ UNCHANGED jobLog
               \/ /\ jobLog' = Append(jobLog, "Image extraction")
                  /\ UNCHANGED imageMap
       ELSE UNCHANGED <<events, imageMap, jobLog>>
  /\ jpc' = StageAfter(jpc)
  /\ UNCHANGED <<options, crawled, jpages, htmlFiles, rewrittenPages, consolidatedCss,
                 fontMap, jobError>>
  /\ UNCHANGED NotJob

\* 5. Extract fonts: fontMap is replaced by what extractFonts returns, unless it throws
JobFonts ==
  /\ jpc = "fonts"
  /\ IF options.fonts
       THEN /\ events' = Append(events, Fetch("font"))
            /\ \/ /\ fontMap' \in SUBSET JobFontUrls
                  /\ UNCHANGED jobLog
               \/ /\ jobLog' = Append(jobLog, "Font extraction")
                  /\ UNCHANGED fontMap
       ELSE UNCHANGED <<events, fontMap, jobLog>>
  /\ jpc' = StageAfter(jpc)
  /\ UNCHANGED <<options, crawled, jpages, htmlFiles, rewrittenPages, consolidatedCss,
                 imageMap, jobError>>
  /\ UNCHANGED NotJob

\* 5b. Extract JavaScript
JobScripts ==
  /\ jpc = "scripts"
  /\ events' = Append(events, Fetch("script"))
  /\ \/ UNCHANGED jobLog
     \/ jobLog' = Append(jobLog, "Script extraction")
  /\ jpc' = StageAfter(jpc)
  /\ UNCHANGED <<options, crawled, jpages, htmlFiles, rewrittenPages, consolidatedCss,
                 imageMap, fontMap, jobError>>
  /\ UNCHANGED NotJob

\* 6. rewriteCss, and the write of style.css: not inside a try block
JobRewriteCss ==
  /\ jpc = "rewriteCss"
  /\ events' = Append(events, Rewrite("css"))
  /\ \/ /\ jpc' = StageAfter(jpc)
        /\ UNCHANGED <<jobLog, jobError>>
     \/ /\ options.css
        /\ FailJob("writeFileSync")
  /\ UNCHANGED <<options, crawled, jpages, htmlFiles, rewrittenPages, consolidatedCss,
                 imageMap, fontMap>>
  /\ UNCHANGED NotJob

\* 6. one pass through the loop over htmlFiles: read, rewriteHtml, write back; not
\* inside a try block
JobRewriteHtml ==
  /\ jpc = "rewriteHtml"
  /\ IF rewrittenPages < Len(htmlFiles)
       THEN \/ /\ FailJob("readFileSync")
               /\ UNCHANGED <<events, rewrittenPages>>
            \/ /\ events' = Append(events, Rewrite("html"))
               /\ \/ /\ rewrittenPages' = rewrittenPages + 1
                     /\ UNCHANGED <<jpc, jobLog, jobError>>
                  \/ /\ FailJob("writeFileSync")
                     /\ UNCHANGED rewrittenPages
       ELSE /\ jpc' = StageAfter(jpc)
            /\ UNCHANGED <<events, rewrittenPages, jobLog, jobError>>
  /\ UNCHANGED <<options, crawled, jpages, htmlFiles, consolidatedCss, imageMap, fontMap>>
  /\ UNCHANGED NotJob

\* 7. Extract content
JobContent ==
  /\ jpc = "content"
  /\ \/ UNCHANGED jobLog
     \/ options.content /\ jobLog' = Append(jobLog, "Content extraction")
  /\ jpc' = StageAfter(jpc)
  /\ UNCHANGED <<options, crawled, jpages, htmlFiles, rewrittenPages, consolidatedCss,
                 imageMap, fontMap, events, jobError>>
  /\ UNCHANGED NotJob

\* 8. Generate WordPress theme
JobTheme ==
  /\ jpc = "theme"
  /\ \/ UNCHANGED jobLog
     \/ jobLog' = Append(jobLog, "WordPress theme")
  /\ jpc' = StageAfter(jpc)
  /\ UNCHANGED <<options, crawled, jpages, htmlFiles, rewrittenPages, consolidatedCss,
                 imageMap, fontMap, events, jobError>>
  /\ UNCHANGED NotJob

\* 9. Create manifest: the write is not inside a try block
JobManifest ==
  /\ jpc = "manifest"
  /\ \/ /\ jpc' = StageAfter(jpc)
        /\ UNCHANGED <<jobLog, jobError>>
     \/ FailJob("writeFileSync")
  /\ UNCHANGED <<options, crawled, jpages, htmlFiles, rewrittenPages, consolidatedCss,
                 imageMap, fontMap, events>>
  /\ UNCHANGED NotJob

JobNext ==
  \/ JobCrawl
  \/ JobExtractHtml
  \/ JobCss
  \/ JobImages
  \/ JobFonts
  \/ JobScripts
  \/ JobRewriteCss
  \/ JobRewriteHtml
  \/ JobContent
  \/ JobTheme
  \/ JobManifest

InitJob == JobInit /\ CrawlIdle /\ DlIdle /\ RwIdle /\ FnIdle /\ SrvIdle

SpecJob == InitJob /\ [][JobNext]_vars

(***************************************************************************)
(* Properties of runCloneJob                                               *)
(***************************************************************************)
RewriteEvents == SelectSeq(events, LAMBDA e : e.kind = "rewrite")

RewriteStarted == RewriteEvents # <<>>

\* C6: every asset download of runCloneJob happens before the first rewrite call: no
\* fetch follows a rewrite call in the job's order of events, once rewriting has started
\* the image map and the font map are never modified, and every rewrite call of the
\* job, of the stylesheet and of each page, is made with the same two maps
C6_DownloadsBeforeRewriting ==
  /\ [](\A i \in 1..Len(events) : \A j \in 1..Len(events) :
          (i < j /\ events[i].kind = "rewrite") => events[j].kind # "fetch")
  /\ [](\A i \in 1..Len(RewriteEvents) :
          RewriteEvents[i].imageMap = imageMap /\ RewriteEvents[i].fontMap = fontMap)
  /\ [][RewriteStarted => (imageMap' = imageMap /\ fontMap' = fontMap)]_vars

\* a job with images and fonts downloaded has rewritten its stylesheet and two pages
C6_Witness ==
  /\ jpc = "completed"
  /\ imageMap # {} /\ fontMap # {}
  /\ Len(RewriteEvents) = 3
  /\ \A what \in {"css", "image", "font", "script"} :
        \E i \in 1..Len(events) : events[i] = Fetch(what)

\* C7 as stated: the job fails with 'No pages could be fetched' only if the crawl
\* fetched no page at all
C7_FailsOnlyIfNothingFetched ==
  jobError = "No pages could be fetched" => crawled = <<>>

\* C7: the job fails with 'No pages could be fetched' exactly when no page the crawl
\* fetched passes the HTML filter of runCloneJob (no page fetched, or none that is an
\* HTML document); with at least one HTML page fetched it never fails for lack of pages
C7_FailsOnlyIfNoHtmlPage ==
  jpc # "crawl" =>
    ((jobError = "No pages could be fetched") <=>
       (\A i \in 1..Len(crawled) :
           /\ crawled[i].html \cap {"<html", "<!doctype"} = {}
           /\ ~({"<body", "</body>"} \subseteq crawled[i].html)))

\* the crawl fetched pages, none of them an HTML document, and the job failed
C7_Witness ==
  /\ jobError = "No pages could be fetched"
  /\ Len(crawled) = 2

\* C8: once the crawl has produced at least one page, no exception of an extraction
\* or rewriting stage makes the job fail: the job never ends in the catch block
C8_StageErrorsNeverFailJob ==
  jpages # <<>> => jpc # "failed"

(***************************************************************************)
(* The asset downloaders: downloadImages, downloadFonts, extractScripts    *)
(***************************************************************************)
\* path.extname(name): the name from its last "." on; empty without one
ExtName(name) ==
  LET d == LastIdx(name, {"."}) IN IF d > 1 THEN From(name, d) ELSE <<>>

\* the tokens of the model's alphabet outside [a-zA-Z0-9._-]
UnsafeToks == {"/", "?", "#", "=", ":", "https:", "http:"}

\* name.replace(/[^a-zA-Z0-9._-]/g, '_') (the names of the model stay below the
\* length that slice(0, n) cuts at)
SafeName(name) == ReplaceToks(name, UnsafeToks, "_")

\* the three filename functions: pathname -> base name, default name, default extension
FileName(base, dflt, dfltExt) ==
  LET name == IF base = <<>> THEN dflt ELSE base
      ext == IF ExtName(name) = <<>> THEN dfltExt ELSE ExtName(name)
  IN SafeName(IF EndsWith(name, ext) THEN name ELSE name \o ext)

\* u.pathname.replace(/\//g, '_').replace(/^_/, '')
FlatPath(pathname) ==
  LET flat == ReplaceToks(pathname, {"/"}, "_")
  IN IF flat # <<>> /\ Head(flat) = "_" THEN Tail(flat) ELSE flat

\* images.js urlToFilename (every URL it is called with parses)
urlToFilename(url) == FileName(FlatPath(ParseUrl(url).pathname), <<"image">>, <<".", "bin">>)

\* fonts.js urlToFontFilename: u.pathname.split('/').pop()
urlToFontFilename(url) ==
  LET p == ParseUrl(url).pathname
  IN FileName(From(p, LastIdx(p, {"/"}) + 1), <<"font">>, <<".", "woff2">>)

\* scripts.js urlToScriptFilename
urlToScriptFilename(url) == FileName(FlatPath(ParseUrl(url).pathname), <<"script">>, <<".", "js">>)

\* images.js normalizeImageUrl: the URL without its query and hash
normalizeImageUrl(url) ==
  LET u == ParseUrl(url)
  IN IF u.ok THEN Href([u EXCEPT !.search = <<>>, !.hash = <<>>]) ELSE url

\* map.set(key, value) on a Map held as a function
MapSet(map, key, value) == (key :> value) @@ map

MapHas(map, key) == key \in DOMAIN map

ImagesDir == <<".", "/", "assets", "/", "images", "/">>
FontsDir == <<".", "/", "assets", "/", "fonts", "/">>
JsDir == <<".", "/", "assets", "/", "js", "/">>

\* the download of url and the write of the file: both inside the try block
Fetched(st, url, filename, fails) ==
  IF url \in fails
    THEN [st EXCEPT !.fetched = Append(@, url)]
    ELSE [st EXCEPT !.fetched = Append(@, url),
                    !.written = Append(@, filename),
                    !.disk = @ \cup {filename}]

RECURSIVE downloadImages(_, _, _)
\* images.js downloadImages: the loop over urls, from the state st on
downloadImages(urls, fails, st) ==
  IF urls = <<>> THEN st
  ELSE LET url == Head(urls)
           normalized == normalizeImageUrl(url)
           filename == urlToFilename(url)
           localPath == ImagesDir \o filename
           st1 == [st EXCEPT !.seen = @ \cup {normalized}]
           set(t) == [t EXCEPT !.saved = MapSet(MapSet(@, url, localPath), normalized, localPath)]
           next == IF ~isFetchableUrl(url) THEN st
                   ELSE IF normalized \in st.seen THEN st
                   ELSE IF filename \in st.disk THEN set(st1)
                   ELSE IF url \in fails THEN Fetched(st1, url, filename, fails)
                   ELSE set(Fetched(st1, url, filename, fails))
       IN downloadImages(Tail(urls), fails, next)

RECURSIVE downloadFonts(_, _, _)
\* fonts.js downloadFonts: the loop over urls, from the state st on
downloadFonts(urls, fails, st) ==
  IF urls = <<>> THEN st
  ELSE LET url == Head(urls)
           filename == urlToFontFilename(url)
           localPath == FontsDir \o filename
           set(t) == [t EXCEPT !.saved = MapSet(@, url, localPath)]
           next == IF ~isFetchableUrl(url) THEN st
                   ELSE IF filename \in st.disk THEN set(st)
                   ELSE IF url \in fails THEN Fetched(st, url, filename, fails)
                   ELSE set(Fetched(st, url, filename, fails))
       IN downloadFonts(Tail(urls), fails, next)

RECURSIVE extractScripts(_, _, _)
\* scripts.js extractScripts: the loop over the external scripts of the pages, from
\* the state st on; fetchScript returns '' for a download that fails
extractScripts(srcs, fails, st) ==
  IF srcs = <<>> THEN st
  ELSE LET url == Head(srcs)
           filename == urlToScriptFilename(url)
           localPath == JsDir \o filename
           st1 == [st EXCEPT !.seen = @ \cup {url}]
           next == IF url \in st.seen THEN st
                   ELSE IF url \in fails THEN Fetched(st1, url, filename, fails)
                   ELSE [Fetched(st1, url, filename, fails) EXCEPT
                           !.saved = MapSet(@, url, localPath)]
       IN extractScripts(Tail(srcs), fails, next)

\* the file extension of the assets of each kind
AssetExt(kind) == CASE kind = "image" -> "png" [] kind = "font" -> "woff" [] OTHER -> "js"

\* the asset URLs the pages of the site refer to: one file, the same file with two
\* cache-busting queries, a file of the same name in another directory, and a file
\* whose name is that directory and name joined by "_"
AssetUrls(kind) ==
  { Site(<<"/", "a", ".", AssetExt(kind)>>),
    Site(<<"/", "a", ".", AssetExt(kind), "?", "v", "1">>),
    Site(<<"/", "a", ".", AssetExt(kind), "?", "v", "2">>),
    Site(<<"/", "b", "/", "a", ".", AssetExt(kind)>>),
    Site(<<"/", "b", "_", "a", ".", AssetExt(kind)>>) }

\* the most URLs a downloader is called with
MaxAssetUrls == 2

\* [...allUrls]: the sequences of at most n different members of S
RECURSIVE ListsOf(_, _)
ListsOf(S, n) ==
  IF n = 0 THEN {<<>>}
  ELSE LET shorter == ListsOf(S, n - 1)
       IN shorter \cup {Append(l, x) : <<l, x>> \in
                          {pr \in shorter \X S : Len(pr[1]) = n - 1 /\ ~Has(pr[1], pr[2])}}

DlInit ==
  /\ dlPc = "start"
  /\ dlKind \in {"image", "font", "script"}
  /\ dlUrls \in ListsOf(AssetUrls(dlKind), MaxAssetUrls)
  /\ dlFails \in SUBSET Range(dlUrls)
  /\ dlOut = NoOut

\* extractImages: const urlMap = await downloadImages([...allUrls], outputDir, logger)
DownloadImages ==
  /\ dlPc = "start" /\ dlKind = "image"
  /\ dlOut' = downloadImages(dlUrls, dlFails, NoOut)
  /\ dlPc' = "done"
  /\ UNCHANGED <<dlKind, dlUrls, dlFails>>
  /\ UNCHANGED NotDl

\* extractFonts: const urlMap = await downloadFonts([...allUrls], outputDir, logger)
DownloadFonts ==
  /\ dlPc = "start" /\ dlKind = "font"
  /\ dlOut' = downloadFonts(dlUrls, dlFails, NoOut)
  /\ dlPc' = "done"
  /\ UNCHANGED <<dlKind, dlUrls, dlFails>>
  /\ UNCHANGED NotDl

\* extractScripts(pages, baseUrl, jsDir, logger) over the external scripts of the pages
ExtractScripts ==
  /\ dlPc = "start" /\ dlKind = "script"
  /\ dlOut' = extractScripts(dlUrls, dlFails, NoOut)
  /\ dlPc' = "done"
  /\ UNCHANGED <<dlKind, dlUrls, dlFails>>
  /\ UNCHANGED NotDl

DlNext == DownloadImages \/ DownloadFonts \/ ExtractScripts

InitAssets == DlInit /\ CrawlIdle /\ JobIdle /\ RwIdle /\ FnIdle /\ SrvIdle

SpecAssets == InitAssets /\ [][DlNext]_vars

\* C5: for every asset kind a remote resource is downloaded and stored at most once
\* in a job: no two downloads are issued for URLs that are equal after their query
\* and hash are stripped, whether or not the first of them failed, and no file is
\* written twice
C5_OneDownloadPerResource ==
  /\ \A i \in 1..Len(dlOut.fetched) : \A j \in 1..Len(dlOut.fetched) :
        normalizeImageUrl(dlOut.fetched[i]) = normalizeImageUrl(dlOut.fetched[j]) => i = j
  /\ \A i \in 1..Len(dlOut.written) : \A j \in 1..Len(dlOut.written) :
        dlOut.written[i] = dlOut.written[j] => i = j

(***************************************************************************)
(* src/src/extractors/html.js: the saved pages and the page map            *)
(***************************************************************************)
RECURSIVE CollapseDashes(_)
\* p.replace(/-+/g, '-')
CollapseDashes(s) ==
  IF Len(s) < 2 THEN s
  ELSE IF s[1] = "-" /\ s[2] = "-" THEN CollapseDashes(Tail(s))
  ELSE <<Head(s)>> \o CollapseDashes(Tail(s))

\* s without one leading and one trailing token t
TrimTok(s, t) ==
  LET a == IF s # <<>> /\ Head(s) = t THEN Tail(s) ELSE s
  IN IF a # <<>> /\ a[Len(a)] = t THEN SubSeq(a, 1, Len(a) - 1) ELSE a

\* p.replace(/^\//, '').replace(/\//g, '-').replace(/[^a-zA-Z0-9-_]/g, '-')
\*  .replace(/-+/g, '-').replace(/^-|-$/g, '')
Dashed(p) ==
  TrimTok(CollapseDashes(ReplaceToks(IF Head(p) = "/" THEN Tail(p) ELSE p,
                                     UnsafeToks \cup {"."}, "-")), "-")

\* x || 'index'
OrIndex(x) == IF x = <<>> THEN <<"index">> ELSE x

\* u.pathname.replace(/\/$/, '')
NoTrailingSlash(p) == IF EndsWith(p, <<"/">>) THEN SubSeq(p, 1, Len(p) - 1) ELSE p

\* the slug of a URL that parsed to u; 'page' after the catch
SlugOf(u) ==
  IF ~u.ok THEN <<"page">> ELSE OrIndex(Dashed(OrIndex(NoTrailingSlash(u.pathname))))

urlToSlug(url) == SlugOf(ParseUrl(url))

\* the decimal digits of n, for the numbers the model reaches
NumTok(n) == <<"1", "2", "3", "4">>[n]

RECURSIVE FreeSuffix(_, _, _)
\* let n = 1; while (usedSlugs.has(`${slug}-${n}`)) n++
FreeSuffix(slug, usedSlugs, n) ==
  IF (slug \o <<"-", NumTok(n)>>) \in usedSlugs THEN FreeSuffix(slug, usedSlugs, n + 1) ELSE n

\* if (usedSlugs.has(slug)) { ...; slug = `${slug}-${n}` }
UniqueSlug(slug, usedSlugs) ==
  IF slug \in usedSlugs THEN slug \o <<"-", NumTok(FreeSuffix(slug, usedSlugs, 1))>> ELSE slug

RECURSIVE extractHtmlFrom(_, _, _)
\* usedSlugs.add(slug); saved.push({ path, url, filename }), and the rest of the loop
SaveAs(pageUrls, usedSlugs, saved, slug) ==
  extractHtmlFrom(Tail(pageUrls), usedSlugs \cup {slug},
                  Append(saved, [url |-> Head(pageUrls), filename |-> slug \o <<".", "html">>]))

\* html.js extractHtml: the loop over pages, with the slugs used and the files saved so far
extractHtmlFrom(pageUrls, usedSlugs, saved) ==
  IF pageUrls = <<>> THEN saved
  ELSE SaveAs(pageUrls, usedSlugs, saved, UniqueSlug(urlToSlug(Head(pageUrls)), usedSlugs))

extractHtml(pageUrls) == extractHtmlFrom(pageUrls, {}, <<>>)

\* baseOrigin.includes('www.') ? baseOrigin.replace('www.', '')
\*                             : baseOrigin.replace(/^(https?:\/\/)/, '$1www.')
AltOrigin(siteOrigin) ==
  IF Includes(siteOrigin, <<"www", ".">>)
    THEN LET i == CHOOSE k \in 1..(Len(siteOrigin) - 1) :
                    /\ SubSeq(siteOrigin, k, k + 1) = <<"www", ".">>
                    /\ \A j \in 1..(k - 1) : SubSeq(siteOrigin, j, j + 1) # <<"www", ".">>
         IN SubSeq(siteOrigin, 1, i - 1) \o From(siteOrigin, i + 2)
  ELSE IF siteOrigin # <<>> /\ Head(siteOrigin) \in Schemes
    THEN SubSeq(siteOrigin, 1, 3) \o <<"www", ".">> \o From(siteOrigin, 4)
  ELSE siteOrigin

\* html.js getUrlVariants, in insertion order
getUrlVariants(url, siteOrigin) ==
  LET u == ParseUrl(url)
      p == IF EndsWith(u.pathname, <<"/">>) /\ Len(u.pathname) > 1
             THEN SubSeq(u.pathname, 1, Len(u.pathname) - 1) ELSE u.pathname
      pathOnly == IF p = <<>> THEN <<"/">> ELSE p
      slash == IF pathOnly = <<"/">> THEN <<>> ELSE <<"/">>
      alt == AltOrigin(siteOrigin)
  IN IF ~u.ok THEN <<url>>
     ELSE AddAll(<<url>>, <<siteOrigin \o pathOnly, siteOrigin \o pathOnly \o slash,
                            alt \o pathOnly, alt \o pathOnly \o slash>>)

RECURSIVE SetEach(_, _, _)
\* for (const v of variants) map.set(v, filename)
SetEach(map, keys, value) ==
  IF keys = <<>> THEN map ELSE SetEach(MapSet(map, Head(keys), value), Tail(keys), value)

RECURSIVE buildUrlToLocalPathFrom(_, _, _)
buildUrlToLocalPathFrom(htmlFs, siteOrigin, map) ==
  IF htmlFs = <<>> THEN map
  ELSE buildUrlToLocalPathFrom(Tail(htmlFs), siteOrigin,
         SetEach(map, getUrlVariants(Head(htmlFs).url, siteOrigin), Head(htmlFs).filename))

buildUrlToLocalPath(htmlFs, siteOrigin) == buildUrlToLocalPathFrom(htmlFs, siteOrigin, <<>>)

(***************************************************************************)
(* The rewriter: rewriteHtml and rewriteCss of src/src/extractors/content.js*)
(* A page is the values of its img src, a href and stylesheet link href    *)
(* attributes; a stylesheet is the sequence of its url(...) references.    *)
(***************************************************************************)
\* url.startsWith('http')
StartsWithHttp(url) == url # <<>> /\ Head(url) \in Schemes

RECURSIVE FirstHit(_, _)
\* if (map.has(k1)) return map.get(k1); if (k2 && map.has(k2)) return map.get(k2); ...
\* return null: the value of the first of the keys that the map has
FirstHit(map, keys) ==
  IF keys = <<>> THEN Null
  ELSE IF Head(keys) # Null /\ MapHas(map, Head(keys)) THEN map[Head(keys)]
  ELSE FirstHit(map, Tail(keys))

\* u.search = ''; u.hash = ''; u.href, of a URL that parsed; null after the catch
WithoutQueryAndHash(u) ==
  IF u.ok THEN Href([u EXCEPT !.search = <<>>, !.hash = <<>>]) ELSE Null

\* u.search = ''; u.href, of a URL that parsed; null after the catch
WithoutQuery(u) == IF u.ok THEN Href([u EXCEPT !.search = <<>>]) ELSE Null

\* baseUrl && !url.startsWith('http') ? resolveUrl(url, baseUrl) : url
ResolvedOrSame(url, baseUrl) ==
  IF baseUrl # <<>> /\ ~StartsWithHttp(url) THEN resolveUrl(url, baseUrl) ELSE url

\* rewriteHtmlImages: const getLocalPath = (url) => ...
getLocalPath(imgMap, url, baseUrl) ==
  FirstHit(imgMap, <<url, ResolvedOrSame(url, baseUrl), WithoutQueryAndHash(ParseUrl(url))>>)

\* local ? local : value
OrKeep(local, value) == IF local # Null THEN local ELSE value

\* $('img').each: const local = getLocalPath(src); if (local) $(el).attr('src', local)
rewriteHtmlImages(html, imgMap, baseUrl) ==
  [html EXCEPT !.imgs =
     [i \in 1..Len(html.imgs) |->
        IF html.imgs[i] = <<>> THEN <<>>
        ELSE OrKeep(getLocalPath(imgMap, html.imgs[i], baseUrl), html.imgs[i])]]

\* the hrefs rewriteHtmlLinks leaves alone before it resolves them
SkippedHref(href) ==
  href = <<>> \/ Head(href) \in {"#", "javascript:", "mailto:", "tel:"}

\* s.replace(/#.*$/, '').replace(/\?.*$/, '')
StripHashAndQuery(s) ==
  SubSeq(s, 1, FirstIdx(SubSeq(s, 1, FirstIdx(s, 1, {"#"}) - 1), 1, {"?"}) - 1)

\* if (pathname.endsWith('/') && pathname.length > 1) pathname = pathname.slice(0, -1);
\* baseOrigin + (pathname || '/')
LookupUrl(siteOrigin, path) ==
  siteOrigin \o (IF EndsWith(path, <<"/">>) /\ Len(path) > 1
                   THEN SubSeq(path, 1, Len(path) - 1)
                 ELSE IF path = <<>> THEN <<"/">> ELSE path)

\* urlToLocalPath.get(lookupUrl) || urlToLocalPath.get(normalized) || urlToLocalPath.get(resolved)
LocalPage(urlToLocalPath, siteOrigin, resolved, normalized) ==
  FirstHit(urlToLocalPath,
           <<LookupUrl(siteOrigin, ParseUrl(normalized).pathname), normalized, resolved>>)

\* rewriteHtmlLinks, for an href that resolved to r
rewriteResolved(href, r, urlToLocalPath, siteOrigin) ==
  IF ~r.ok THEN href
  ELSE IF Origin(r) # siteOrigin THEN href
  ELSE OrKeep(LocalPage(urlToLocalPath, siteOrigin, Href(r), StripHashAndQuery(Href(r))), href)

\* the body of $('a[href]').each in rewriteHtmlLinks: the new value of one href
rewriteHref(href, urlToLocalPath, siteOrigin) ==
  IF SkippedHref(href) THEN href
  ELSE rewriteResolved(href, ResolveAgainst(href, siteOrigin \o <<"/">>), urlToLocalPath, siteOrigin)

rewriteHtmlLinks(html, urlToLocalPath, siteOrigin) ==
  IF DOMAIN urlToLocalPath = {} THEN html
  ELSE [html EXCEPT !.links =
          [i \in 1..Len(html.links) |-> rewriteHref(html.links[i], urlToLocalPath, siteOrigin)]]

\* './style.css'
StyleCss == <<".", "/", "style", ".", "css">>

\* $('link[rel="stylesheet"]').attr('href', cssLocalPath)
SetStylesheets(html, cssLocalPath) ==
  IF cssLocalPath # <<>>
    THEN [html EXCEPT !.stylesheets = [i \in 1..Len(html.stylesheets) |-> cssLocalPath]]
    ELSE html

rewriteHtml(html, imgMap, cssLocalPath, urlToLocalPath, siteOrigin, pageUrl) ==
  SetStylesheets(
    rewriteHtmlLinks(
      rewriteHtmlImages(html, imgMap, IF pageUrl # <<>> THEN pageUrl ELSE siteOrigin),
      urlToLocalPath, siteOrigin),
    cssLocalPath)

\* rewriteCssImages: const getLocalPath = (url) => ...
getLocalPathCss(imgMap, url, baseUrl) ==
  FirstHit(imgMap, <<url, ResolvedOrSame(url, baseUrl),
                     WithoutQueryAndHash(ResolveAgainst(url, baseUrl))>>)

\* `url("${local}")` for a reference with a local path; the reference as it is
\* written (match) for any other
Replaced(local, match) == IF local # Null THEN [q |-> "dq", url |-> local] ELSE match

\* css.replace(/url\s*\(\s*["']?([^"')]+)["']?\s*\)/g, ...)
rewriteCssImages(css, imgMap, baseUrl) ==
  [i \in 1..Len(css) |-> Replaced(getLocalPathCss(imgMap, css[i].url, baseUrl), css[i])]

\* the replacement function of rewriteCssFonts for one reference
fontLocalPath(fMap, url, baseUrl) ==
  FirstHit(fMap, <<url, ResolvedOrSame(url, baseUrl), WithoutQuery(ResolveAgainst(url, baseUrl))>>)

rewriteCssFonts(css, fMap, baseUrl) ==
  [i \in 1..Len(css) |-> Replaced(fontLocalPath(fMap, css[i].url, baseUrl), css[i])]

\* if (imageMap && imageMap.size > 0) result = rewriteCssImages(result, imageMap, baseUrl)
CssImagesPass(css, imgMap, baseUrl) ==
  IF DOMAIN imgMap # {} THEN rewriteCssImages(css, imgMap, baseUrl) ELSE css

\* if (fontMap && fontMap.size > 0) result = rewriteCssFonts(result, fontMap, baseUrl)
CssFontsPass(css, fMap, baseUrl) ==
  IF DOMAIN fMap # {} THEN rewriteCssFonts(css, fMap, baseUrl) ELSE css

rewriteCss(css, imgMap, fMap, baseUrl) ==
  CssFontsPass(CssImagesPass(css, imgMap, baseUrl), fMap, baseUrl)

\* the cloned sites: their pages, images and fonts in the order they were found
RwSites ==
  { [pages |-> <<Site(<<"/">>), Site(<<"/", "about">>)>>,
     images |-> <<Site(<<"/", "x", ".", "png">>)>>,
     fonts |-> <<Site(<<"/", "f", "/", "a", ".", "woff">>)>>],
    [pages |-> <<Site(<<"/">>), Site(<<"/", "about">>), Site(<<"/", "about", ".", "html">>)>>,
     images |-> <<Site(<<"/", "x", ".", "png">>),
                  Site(<<"/", "assets", "/", "images", "/", "x", ".", "png">>)>>,
     fonts |-> <<Site(<<"/", "f", "/", "a", ".", "woff">>),
                 Site(<<"/", "assets", "/", "fonts", "/", "b", ".", "woff">>)>>],
    [pages |-> <<Site(<<"/">>)>>, images |-> <<>>, fonts |-> <<>>],
    [pages |-> <<Site(<<"/", "blog", "/", "foo">>), Site(<<"/", "blog", "-", "foo">>)>>,
     images |-> <<Site(<<"/", "x", ".", "png", "?", "v", "1">>)>>,
     fonts |-> <<>>] }

\* the img src values of a page
ImgSrcs ==
  { <<"/", "x", ".", "png">>,
    <<"x", ".", "png">>,
    <<"/", "x", ".", "png", "?", "v", "2">>,
    Site(<<"/", "x", ".", "png", "?", "v", "1">>) }

\* the a href values of a page
Hrefs ==
  { <<"/", "about">>,
    <<"/", "about", "/", "?", "q", "=", "1">>,
    <<"#", "top">>,
    <<"https:", "/", "/", "other", ".", "com", "/", "about">>,
    Site(<<"/", "about", "/">>),
    WwwSite(<<"/", "about">>),
    WwwSite(<<"/", "about", "/">>) }

\* the url(...) references of a stylesheet: unquoted, single-quoted, double-quoted
CssRefs ==
  { [q |-> "", url |-> <<"/", "x", ".", "png">>],
    [q |-> "sq", url |-> Site(<<"/", "f", "/", "a", ".", "woff">>)],
    [q |-> "dq", url |-> <<"f", "/", "a", ".", "woff">>] }

\* the most references of one kind in a document
MaxRefs == 1

\* cloner.js: the maps that the rewriting of a job uses, and its rewriting of the
\* stylesheet and of one page
RewriteWith(html, css, imgMap, fMap, urlToLocalPath, siteOrigin) ==
  [html |-> rewriteHtml(html, imgMap, StyleCss, urlToLocalPath, siteOrigin, html.url),
   css |-> rewriteCss(css, imgMap, fMap, siteOrigin)]

\* the origin of the site: crawlSite returns baseUrl: new URL(startUrl).origin
SiteOrigin(st) == Origin(ParseUrl(st.pages[1]))

RewritePass(st, html, css) ==
  RewriteWith(html, css,
              downloadImages(st.images, {}, NoOut).saved,
              downloadFonts(st.fonts, {}, NoOut).saved,
              buildUrlToLocalPath(extractHtml(st.pages), SiteOrigin(st)),
              SiteOrigin(st))

RwInit ==
  /\ rwPc = "start"
  /\ rwSite \in RwSites
  /\ rwDoc \in [url : Range(rwSite.pages),
               imgs : ListsOf(ImgSrcs, MaxRefs),
               links : ListsOf(Hrefs, MaxRefs),
               stylesheets : {<<>>, <<<<"/", "main", ".", "css">>>>}]
  /\ rwCss \in ListsOf(CssRefs, MaxRefs)
  /\ rwOnce = [html |-> NoDoc, css |-> <<>>]
  /\ rwTwice = [html |-> NoDoc, css |-> <<>>]

\* the rewriter applied to the extracted stylesheet and page
RewriteFirst ==
  /\ rwPc = "start"
  /\ rwOnce' = RewritePass(rwSite, rwDoc, rwCss)
  /\ rwPc' = "once"
  /\ UNCHANGED <<rwSite, rwDoc, rwCss, rwTwice>>
  /\ UNCHANGED NotRw

\* the rewriter applied to its own output, with the same maps
RewriteAgain ==
  /\ rwPc = "once"
  /\ rwTwice' = RewritePass(rwSite, rwOnce.html, rwOnce.css)
  /\ rwPc' = "twice"
  /\ UNCHANGED <<rwSite, rwDoc, rwCss, rwOnce>>
  /\ UNCHANGED NotRw

RwNext == RewriteFirst \/ RewriteAgain

InitRewrite == RwInit /\ CrawlIdle /\ JobIdle /\ DlIdle /\ FnIdle /\ SrvIdle

SpecRewrite == InitRewrite /\ [][RwNext]_vars

\* C10: rewriting is idempotent: with the image map, the font map and the page map
\* fixed, rewriting an already rewritten page or stylesheet changes nothing, also
\* when a remote asset or page exists at the URL that a local path resolves to
C10_RewriteIdempotent ==
  rwPc = "twice" => rwTwice = rwOnce

(***************************************************************************)
(* Properties of the rewriter's lookups                                    *)
(***************************************************************************)
\* the image map and the font map of the job that rewrites rwDoc and rwCss
RwImageMap == downloadImages(rwSite.images, {}, NoOut).saved

RwFontMap == downloadFonts(rwSite.fonts, {}, NoOut).saved

\* the URL a reference stands for when it is resolved from base as the URL standard
\* resolves it, without its query and hash; Null if it does not resolve
Referred(ref, base) == WithoutQueryAndHash(ResolveAgainst(ref, base))

\* C11: every reference to an asset of the image map is rewritten to the asset's
\* local path, whether it is spelled as the crawled URL, as that URL with a query
\* string added, or as a relative reference (with or without a query string) that
\* resolves to it from the referencing document; in the page and in the stylesheet
C11_LookupFindsEverySpelling ==
  rwPc = "once" =>
    /\ \A i \in 1..Len(rwDoc.imgs) :
         MapHas(RwImageMap, Referred(rwDoc.imgs[i], rwDoc.url))
           => rwOnce.html.imgs[i] = RwImageMap[Referred(rwDoc.imgs[i], rwDoc.url)]
    /\ \A i \in 1..Len(rwCss) :
         MapHas(RwImageMap, Referred(rwCss[i].url, SiteOrigin(rwSite)))
           => rwOnce.css[i].url = RwImageMap[Referred(rwCss[i].url, SiteOrigin(rwSite))]

(***************************************************************************)
(* content.js: the img handler of rewriteHtmlImages, with the lazy-load    *)
(* attributes.  An element is a function from attribute names to values;   *)
(* a URL attribute holds a string, a srcset attribute a list of candidates *)
(* [url, desc]; Absent is the value of an attribute the element lacks.     *)
(***************************************************************************)
Absent == <<>>

\* images.js: LAZY_ATTRS
LAZY_ATTRS ==
  {"data-src", "data-lazy-src", "data-lazy", "data-original", "data-srcset",
   "data-lazy-srcset", "data-slide-src", "data-image", "data-img"}

ImgAttrs == {"src", "srcset"} \cup LAZY_ATTRS

\* the attributes dataSrc is read from, in the order of the || chain
DataSrcAttrs ==
  <<"data-src", "data-lazy-src", "data-original", "data-image", "data-img", "data-slide-src">>

\* placeholderPattern, on the words of a src
PlaceholderWords ==
  {"1x1", "transparent", "loading", "spacer", "blank", "placeholder", "pixel", "dummy"}

placeholderPattern(src) ==
  \/ \E i \in 1..Len(src) : src[i] \in PlaceholderWords
  \/ Includes(src, <<"data:", "image">>)
  \/ Includes(src, <<".", "gif", "?">>)

\* a || b || ... over the attributes of attrs, Absent if none is set
RECURSIVE FirstSet(_, _)
FirstSet(el, attrs) ==
  IF attrs = <<>> THEN Absent
  ELSE IF el[Head(attrs)] # Absent THEN el[Head(attrs)]
  ELSE FirstSet(el, Tail(attrs))

\* srcset.split(',').map(...): each candidate's URL replaced by its local path, if any
rewriteSrcset(srcset, imgMap, baseUrl) ==
  [i \in 1..Len(srcset) |->
     [srcset[i] EXCEPT !.url = OrKeep(getLocalPath(imgMap, srcset[i].url, baseUrl), srcset[i].url)]]

\* (!src || placeholderPattern.test(src)) && dataSrc
WantsPromotion(el, dataSrc) ==
  (el["src"] = Absent \/ placeholderPattern(el["src"])) /\ dataSrc # Absent

\* $(el).attr('src', local) and the chain of removeAttr
Promote(el, local) ==
  [a \in DOMAIN el |->
     IF a = "src" THEN local
     ELSE IF a \in Range(DataSrcAttrs) THEN Absent
     ELSE el[a]]

\* the if / else if on src
ImgSrcStep(el, imgMap, baseUrl, dataSrc, local) ==
  IF WantsPromotion(el, dataSrc)
  THEN IF local # Null THEN Promote(el, local) ELSE el
  ELSE IF el["src"] # Absent
       THEN [el EXCEPT !["src"] = OrKeep(getLocalPath(imgMap, el["src"], baseUrl), el["src"])]
       ELSE el

\* if (srcset)
ImgSrcsetStep(el, imgMap, baseUrl) ==
  IF el["srcset"] # Absent
  THEN [el EXCEPT !["srcset"] = rewriteSrcset(el["srcset"], imgMap, baseUrl)]
  ELSE el

\* if (!promoted && dataSrc)
ImgDataSrcStep(el, promoted, dataSrc, local) ==
  IF ~promoted /\ dataSrc # Absent /\ local # Null
  THEN [a \in DOMAIN el |->
          IF a \in Range(DataSrcAttrs) /\ el[a] # Absent THEN local ELSE el[a]]
  ELSE el

\* dataLazySrcset = attr('data-srcset') || attr('data-lazy-srcset'), written to data-srcset
ImgLazySrcsetStep(el, imgMap, baseUrl, dataLazySrcset) ==
  IF dataLazySrcset # Absent
  THEN [el EXCEPT !["data-srcset"] = rewriteSrcset(dataLazySrcset, imgMap, baseUrl)]
  ELSE el

rewriteImgWith(el, imgMap, baseUrl, dataSrc, local) ==
  ImgLazySrcsetStep(
    ImgDataSrcStep(
      ImgSrcsetStep(ImgSrcStep(el, imgMap, baseUrl, dataSrc, local), imgMap, baseUrl),
      WantsPromotion(el, dataSrc) /\ local # Null, dataSrc, local),
    imgMap, baseUrl, FirstSet(el, <<"data-srcset", "data-lazy-srcset">>))

\* $('img').each((_, el) => ...)
rewriteImg(el, imgMap, baseUrl) ==
  rewriteImgWith(el, imgMap, baseUrl, FirstSet(el, DataSrcAttrs),
                 IF FirstSet(el, DataSrcAttrs) = Absent THEN Null
                 ELSE getLocalPath(imgMap, FirstSet(el, DataSrcAttrs), baseUrl))

\* the image map of a job that downloaded https://example.com/x.png
LazyImageMap == downloadImages(<<Site(<<"/", "x", ".", "png">>)>>, {}, NoOut).saved

\* img elements: src missing, a placeholder or a real image; one lazy-load URL attribute
\* holding a downloaded or an unknown image; possibly one srcset attribute
ImgElements ==
  { [a \in ImgAttrs |->
       IF a = "src" THEN src
       ELSE IF a = lazy THEN url
       ELSE IF a = setAttr THEN <<[url |-> url, desc |-> "2x"]>>
       ELSE Absent] :
    src \in {Absent, <<"loading", ".", "gif">>, <<"/", "x", ".", "png">>},
    lazy \in Range(DataSrcAttrs) \cup {"data-lazy"},
    url \in {Site(<<"/", "x", ".", "png">>), Site(<<"/", "y", ".", "png">>)},
    setAttr \in {"none", "srcset", "data-srcset", "data-lazy-srcset"} }

(***************************************************************************)
(* css.js, images.js, cloner.js: the way of a stylesheet's url(...)        *)
(* references from the fetched stylesheet to the rewritten style.css.      *)
(* A stylesheet block is [source, content]: the URL it was fetched from    *)
(* and its url(...) references.                                            *)
(***************************************************************************)
\* images.js: IMAGE_EXTENSIONS, without the dot
IMAGE_EXTENSIONS == {"jpg", "jpeg", "png", "gif", "webp", "svg", "ico", "bmp", "avif"}

\* the path words that begin with image, img, photo or media
ImageDirWords == {"image", "images", "img", "photo", "photos", "media"}

\* isImageUrl, on a parsed URL
IsImagePath(u) ==
  /\ u.ok
  /\ \/ \E w \in ImageDirWords : Includes(u.pathname, <<"/", w>>)
     \/ \E ext \in IMAGE_EXTENSIONS : EndsWith(u.pathname, <<".", ext>>)

isImageUrl(url) == IsImagePath(ParseUrl(url))

\* extractImageUrlsFromCss: imagePathPattern.test(u)
imagePathPattern(u) ==
  \/ \E ext \in IMAGE_EXTENSIONS : Includes(u, <<".", ext>>)
  \/ \E w \in ImageDirWords \cup {"uploads", "userfiles", "assets"} : Includes(u, <<"/", w>>)

\* the body of extractImageUrlsFromCss's loop for one reference u, resolved as resolved
AddCssImage(urls, u, resolved) ==
  IF StartsWith(u, <<"data:">>) THEN urls
  ELSE IF resolved # Null /\ isFetchableUrl(resolved)
          /\ (isImageUrl(resolved) \/ imagePathPattern(u))
       THEN SetAdd(urls, resolved)
       ELSE urls

RECURSIVE extractImageUrlsFromCssInto(_, _, _)
extractImageUrlsFromCssInto(urls, css, baseUrl) ==
  IF css = <<>> THEN urls
  ELSE extractImageUrlsFromCssInto(
         AddCssImage(urls, Head(css).url, resolveUrl(Head(css).url, baseUrl)),
         Tail(css), baseUrl)

extractImageUrlsFromCss(css, baseUrl) == extractImageUrlsFromCssInto(<<>>, css, baseUrl)

\* consolidateCss: the blocks' contents one after the other; the source of a block is
\* kept in a comment only
RECURSIVE consolidateCss(_)
consolidateCss(cssBlocks) ==
  IF cssBlocks = <<>> THEN <<>>
  ELSE Head(cssBlocks).content \o consolidateCss(Tail(cssBlocks))

\* runCloneJob for the stylesheet: extractImages on the consolidated CSS, then rewriteCss,
\* both with the baseUrl that crawlSite returned
CssImagesWith(css, urls, baseUrl) ==
  [urls |-> urls,
   css |-> rewriteCss(css, downloadImages(urls, {}, NoOut).saved, NoOut.saved, baseUrl)]

CssImagesOf(css, baseUrl) == CssImagesWith(css, extractImageUrlsFromCss(css, baseUrl), baseUrl)

\* the stylesheets of a page of https://example.com/: in a directory, at the root, on
\* another host; each with one url(...) reference
CssSources ==
  { Site(<<"/", "css", "/", "app", ".", "css">>),
    Site(<<"/", "app", ".", "css">>),
    <<"https:", "/", "/", "cdn", ".", "net", "/", "css", "/", "app", ".", "css">> }

CssImageRefs ==
  { <<".", ".", "/", "img", "/", "x", ".", "png">>,
    <<"img", "/", "x", ".", "png">>,
    <<"/", "img", "/", "x", ".", "png">>,
    <<"bg", ".", "jpg">>,
    Site(<<"/", "img", "/", "x", ".", "png">>) }

CssBlocks ==
  { [source |-> s, content |-> <<[q |-> q, url |-> u]>>] :
    s \in CssSources, u \in CssImageRefs, q \in {"", "dq"} }

(***************************************************************************)
(* The helpers called on their own: the img handler of rewriteHtmlImages,   *)
(* the way of a stylesheet's images through the job, and the URL helpers   *)
(* resolveUrl (utils/url.js), normalizeUrl and isInternalUrl (crawler.js)  *)
(***************************************************************************)
HttpSite(path) == <<"http:", "/", "/">> \o EX \o path

OtherSite(path) == <<"https:", "/", "/", "other", ".", "com">> \o path

\* URL strings: with trailing slashes, query and hash, the www host, the http scheme,
\* another host, and two strings that new URL() rejects
UrlStrings ==
  { Site(<<"/">>), Site(<<"/", "about">>), Site(<<"/", "about", "/">>),
    Site(<<"/", "about", "/", "/">>), Site(<<"/", "about", "?", "q", "=", "1", "#", "top">>),
    WwwSite(<<"/", "about">>), HttpSite(<<"/", "about">>), HttpSite(<<"/", "blog">>),
    OtherSite(<<"/", "about">>), <<"about">>, <<"/", "/">> }

\* href attribute values
HrefStrings ==
  { <<"/", "about">>, <<"about">>, <<"/", "example", ".", "com", "/", "foo">>,
    <<"example", ".", "com", "/", "foo">>, <<"www", ".", "example", ".", "com", "/", "about">>,
    <<"/", "/", "other", ".", "com", "/", "x">>, <<".", ".", "/", "x">>, <<"#", "top">>,
    Site(<<"/", "blog">>), <<>> }

BaseUrls == { Site(<<"/">>), Site(<<"/", "blog", "/", "foo">>), WwwSite(<<"/">>) }

\* what the site serves for a stylesheet URL: the status of the response (0 when the
\* fetch throws: a network error, or a 5xx answer after the retries) and the @import
\* references of the body
Sheet(status, imports) == [status |-> status, imports |-> imports]

CssA == Site(<<"/", "a", ".", "css">>)
CssB == Site(<<"/", "b", ".", "css">>)
CssC == Site(<<"/", "c", ".", "css">>)

\* a stylesheet that imports itself; two that import each other; one imported twice;
\* an import whose fetch throws; an import the site answers with 404
CssWebs ==
  { (CssA :> Sheet(200, << <<"/", "a", ".", "css">> >>)),
    (CssA :> Sheet(200, << <<"/", "b", ".", "css">> >>)) @@ (CssB :> Sheet(200, <<CssA>>)),
    (CssA :> Sheet(200, << <<"/", "b", ".", "css">>, CssC >>))
       @@ (CssB :> Sheet(200, << <<"/", "c", ".", "css">>, <<"/", "b", ".", "css">> >>))
       @@ (CssC :> Sheet(200, <<>>)),
    (CssA :> Sheet(200, << <<"/", "b", ".", "css">>, <<"/", "c", ".", "css">> >>))
       @@ (CssB :> Sheet(0, <<>>))
       @@ (CssC :> Sheet(200, <<CssB>>)),
    (CssA :> Sheet(200, << <<"/", "b", ".", "css">> >>)) @@ (CssB :> Sheet(404, <<>>)) }

\* fetchUrl(resolved, ...): a status below 500 resolves, whatever the status
CssResponse(w, url) == IF url \in DOMAIN w THEN w[url] ELSE Sheet(404, <<>>)

\* one call of resolveImports: the stylesheet, its @import references, the index of
\* the next match of importRegex, and the imports array
ImportFrame(baseUrl, refs) == [baseUrl |-> baseUrl, refs |-> refs, i |-> 1, imports |-> <<>>]

RECURSIVE Prepended(_, _)
\* for (const imp of imports) result = imp.content + '\n' + result
Prepended(imports, result) ==
  IF imports = <<>> THEN result ELSE Prepended(Tail(imports), Head(imports) \o result)

FnInit ==
  /\ fnPc = "start"
  /\ \/ fnOp = "resolveUrl" /\ fnArgs \in HrefStrings \X BaseUrls
     \/ fnOp = "normalizeUrl" /\ fnArgs \in {<<u>> : u \in UrlStrings}
     \/ fnOp = "isInternalUrl" /\ fnArgs \in UrlStrings \X UrlStrings
     \/ fnOp = "rewriteImg" /\ fnArgs \in {<<el>> : el \in ImgElements}
     \/ fnOp = "cssImages" /\ fnArgs \in {<<b>> : b \in CssBlocks}
     \/ fnOp = "resolveImports" /\ fnArgs \in {<<w>> : w \in CssWebs}
  /\ fnOut = <<>>

CallResolveUrl ==
  /\ fnPc = "start" /\ fnOp = "resolveUrl"
  /\ fnOut' = <<resolveUrl(fnArgs[1], fnArgs[2])>>
  /\ fnPc' = "done"
  /\ UNCHANGED <<fnOp, fnArgs>>
  /\ UNCHANGED NotFn

\* normalizeUrl applied to the argument, and then to its own result
CallNormalizeUrl ==
  /\ fnPc \in {"start", "once"} /\ fnOp = "normalizeUrl"
  /\ fnOut' = Append(fnOut, normalizeUrl(IF fnPc = "start" THEN fnArgs[1] ELSE fnOut[1]))
  /\ fnPc' = IF fnPc = "start" THEN "once" ELSE "done"
  /\ UNCHANGED <<fnOp, fnArgs>>
  /\ UNCHANGED NotFn

CallIsInternalUrl ==
  /\ fnPc = "start" /\ fnOp = "isInternalUrl"
  /\ fnOut' = <<isInternalUrl(fnArgs[1], fnArgs[2])>>
  /\ fnPc' = "done"
  /\ UNCHANGED <<fnOp, fnArgs>>
  /\ UNCHANGED NotFn

\* rewriteHtmlImages on a page https://example.com/ that holds one img element
CallRewriteImg ==
  /\ fnPc = "start" /\ fnOp = "rewriteImg"
  /\ fnOut' = <<rewriteImg(fnArgs[1], LazyImageMap, Site(<<"/">>))>>
  /\ fnPc' = "done"
  /\ UNCHANGED <<fnOp, fnArgs>>
  /\ UNCHANGED NotFn

\* extractCss, extractImages and rewriteCss of a job on https://example.com/ whose
\* page links one stylesheet
CallCssImages ==
  /\ fnPc = "start" /\ fnOp = "cssImages"
  /\ fnOut' = <<CssImagesOf(consolidateCss(fnArgs), Origin(ParseUrl(Site(<<"/">>))))>>
  /\ fnPc' = "done"
  /\ UNCHANGED <<fnOp, fnArgs>>
  /\ UNCHANGED NotFn

\* consolidateCss: resolveImports(content, block.source) for the stylesheet a.css,
\* with a new seen set
CallResolveImports ==
  /\ fnPc = "start" /\ fnOp = "resolveImports"
  /\ fnOut' = <<[stack |-> <<ImportFrame(CssA, fnArgs[1][CssA].imports)>>,
                seen |-> <<>>, fetched |-> <<>>, result |-> <<>>]>>
  /\ fnPc' = "imports"
  /\ UNCHANGED <<fnOp, fnArgs>>
  /\ UNCHANGED NotFn

\* the next match of importRegex in the innermost call
ImportMatch(st, top, resolved) ==
  LET next == [top EXCEPT !.i = top.i + 1]
      depth == Len(st.stack)
  IN IF resolved # Null /\ ~Has(st.seen, resolved) /\ isFetchableUrl(resolved)
       THEN [st EXCEPT !.seen = SetAdd(st.seen, resolved),
                       !.fetched = Append(st.fetched, resolved),
                       !.stack = IF CssResponse(fnArgs[1], resolved).status = 0
                                   THEN [st.stack EXCEPT ![depth] = next]
                                   ELSE Append(st.stack,
                                          ImportFrame(resolved,
                                             CssResponse(fnArgs[1], resolved).imports))]
       ELSE [st EXCEPT !.stack = [st.stack EXCEPT ![depth] = next]]

\* the innermost call has no further match: it returns the contents of its imports
\* followed by its own rules
ImportReturn(st, top) ==
  LET content == Prepended(top.imports, <<top.baseUrl>>)
      depth == Len(st.stack)
  IN IF depth = 1
       THEN [st EXCEPT !.stack = <<>>, !.result = content]
       ELSE [st EXCEPT !.stack =
               [SubSeq(st.stack, 1, depth - 1) EXCEPT
                  ![depth - 1] = [@ EXCEPT !.i = @ + 1, !.imports = Append(@, content)]]]

\* one step of resolveImports: a match of the while loop, or the return of a call
ResolveImportsStep ==
  /\ fnPc = "imports" /\ fnOp = "resolveImports"
  /\ LET st == fnOut[1]
         top == st.stack[Len(st.stack)]
     IN /\ fnOut' = <<IF top.i <= Len(top.refs)
                        THEN ImportMatch(st, top, resolveUrl(top.refs[top.i], top.baseUrl))
                        ELSE ImportReturn(st, top)>>
        /\ fnPc' = IF fnOut'[1].stack = <<>> THEN "done" ELSE "imports"
  /\ UNCHANGED <<fnOp, fnArgs>>
  /\ UNCHANGED NotFn

FnNext ==
  \/ CallResolveUrl \/ CallNormalizeUrl \/ CallIsInternalUrl \/ CallRewriteImg \/ CallCssImages
  \/ CallResolveImports \/ ResolveImportsStep

InitUrl == FnInit /\ CrawlIdle /\ JobIdle /\ DlIdle /\ RwIdle /\ SrvIdle

SpecUrl == InitUrl /\ [][FnNext]_vars

\* C12: resolveUrl returns null or a URL whose path does not contain the URL's own
\* hostname
C12_NoHostnameInResolvedPath ==
  (fnPc = "done" /\ fnOp = "resolveUrl" /\ fnOut[1] # Null)
    => ~Includes(ParseUrl(fnOut[1]).pathname, ParseUrl(fnOut[1]).hostname)

\* C13: normalizeUrl is idempotent: applied to its own result it returns that result
C13_NormalizeUrlIdempotent ==
  (fnPc = "done" /\ fnOp = "normalizeUrl") => fnOut[2] = fnOut[1]

\* C19: for two URLs that parse, isInternalUrl is true exactly when their hostnames
\* are equal after a leading "www." is removed from each, whatever their schemes and
\* paths are
C19_SameOriginIsHostEquality ==
  (fnPc = "done" /\ fnOp = "isInternalUrl" /\ ParseUrl(fnArgs[1]).ok /\ ParseUrl(fnArgs[2]).ok)
    => (fnOut[1] <=> StripWww(ParseUrl(fnArgs[1]).hostname) = StripWww(ParseUrl(fnArgs[2]).hostname))

(***************************************************************************)
(* Properties of the sitemap discovery                                     *)
(***************************************************************************)
\* the <url><loc> entries of all sitemap documents of a site, normalized
PageEntries(st) ==
  UNION { {normalizeUrl(st.docs[u].entries[i].loc) :
             i \in {k \in 1..Len(st.docs[u].entries) : st.docs[u].entries[k].tag = "url"}} :
          u \in DOMAIN st.docs }

\* C14: when fetchSitemapUrls has returned for a sitemap index whose sub-sitemaps
\* hold <url><loc> entries, the URLs it returned are exactly the page entries of the
\* sub-sitemaps; no sub-sitemap URL is among them, whatever its suffix
C14_SitemapIndexYieldsPageEntries ==
  pc = "http_loop" => Range(smUrls) = PageEntries(site)

(***************************************************************************)
(* Properties of the img handler                                           *)
(***************************************************************************)
\* C15: an img whose src is missing or a placeholder and whose lazy-load attribute holds
\* a URL of the image map has, after rewriteHtmlImages, the mapped local path as src and
\* no lazy-load attribute of LAZY_ATTRS any more
C15_PromotionRemovesLazyAttributes ==
  (fnPc = "done" /\ fnOp = "rewriteImg") =>
    \A a \in Range(DataSrcAttrs) \cup {"data-lazy"} :
      ( /\ fnArgs[1]["src"] = Absent \/ placeholderPattern(fnArgs[1]["src"])
        /\ fnArgs[1][a] # Absent
        /\ MapHas(LazyImageMap, fnArgs[1][a]) )
      => /\ fnOut[1]["src"] = LazyImageMap[fnArgs[1][a]]
         /\ \A l \in LAZY_ATTRS : fnOut[1][l] = Absent

(***************************************************************************)
(* Properties of the stylesheet images                                     *)
(***************************************************************************)
\* the URL a url(...) reference of a stylesheet stands for: resolved against the URL the
\* stylesheet was fetched from
CssTarget(ref, source) == Href(ResolveAgainst(ref, source))

\* C16: a relative url(...) of a stylesheet fetched from S is resolved against S, both
\* when the image URL is extracted for download and when the consolidated CSS is
\* rewritten: the URL extracted is the reference resolved against S, and the reference
\* is rewritten to the local file of that URL
C16_CssUrlsResolveAgainstStylesheet ==
  (fnPc = "done" /\ fnOp = "cssImages" /\ ~StartsWithHttp(fnArgs[1].content[1].url)) =>
    /\ fnOut[1].urls = <<CssTarget(fnArgs[1].content[1].url, fnArgs[1].source)>>
    /\ fnOut[1].css[1].url =
         ImagesDir \o urlToFilename(CssTarget(fnArgs[1].content[1].url, fnArgs[1].source))

(***************************************************************************)
(* Properties of the link rewriting                                        *)
(***************************************************************************)
\* the page map of the job that rewrites rwDoc
RwPageMap == buildUrlToLocalPath(extractHtml(rwSite.pages), SiteOrigin(rwSite))

\* the URL an href stands for, resolved against the origin of the crawl
LinkTarget(href) == ResolveAgainst(href, SiteOrigin(rwSite) \o <<"/">>)

\* the key of the page an internal URL r leads to
PageKey(r) == LookupUrl(SiteOrigin(rwSite), r.pathname)

\* the href resolves to a crawled page of the crawl origin
InternalPage(r) ==
  r.ok /\ Origin(r) = SiteOrigin(rwSite) /\ MapHas(RwPageMap, PageKey(r))

\* C17: after rewriteHtmlLinks, an anchor that resolves to a crawled page of the crawl
\* origin has the page's local filename followed by the query and the fragment of the
\* original href; any other anchor has its href unchanged (anchors that the handler
\* skips, such as "#top", are left out)
C17_LinksKeepQueryAndFragment ==
  rwPc = "once" =>
    \A i \in 1..Len(rwDoc.links) :
      ~SkippedHref(rwDoc.links[i]) =>
        rwOnce.html.links[i] =
          IF InternalPage(LinkTarget(rwDoc.links[i]))
          THEN RwPageMap[PageKey(LinkTarget(rwDoc.links[i]))]
                 \o LinkTarget(rwDoc.links[i]).search \o LinkTarget(rwDoc.links[i]).hash
          ELSE rwDoc.links[i]

(***************************************************************************)
(* Properties of the fetcher's retries                                     *)
(***************************************************************************)
\* a transient failure of a request: connection reset or refused, timeout, DNS failure
\* (the error codes the interceptor lists for them), or a 5xx response.  An error with
\* any other code, such as the ECONNABORTED of an aborted request, is not among them.
TransientError(r) ==
  \/ r.code \in {"ECONNRESET", "ECONNREFUSED", "ETIMEDOUT", "ENOTFOUND"}
  \/ r.status >= 500

SourceFails ==
  pc = "sm_fetch" /\
    (SitemapResponse(site, Top.url).kind = "throw" \/ SitemapResponse(site, Top.url).status # 200)

\* every URL the discovery holds: in fetchSitemapUrls' set or in a parseSitemap call
FoundSoFar ==
  Range(smUrls) \cup UNION {Range(smStack[i].urls) : i \in 1..Len(smStack)}

\* the parseSitemap call that fetchSitemapUrls made for a path returns in this step
PathDone == Len(smStack) = 1 /\ (Len(smStack') = 0 \/ smPath' # smPath)

\* C20: a sitemap or sub-sitemap that cannot be fetched (exception, status other than
\* 200) never raises out of the discovery and never fails the crawl: it adds no URL;
\* when a path has given no URL the next path of sitemapPaths is tried, in order; the
\* first path that gives a URL, or the last path, ends the search; and the crawl then
\* starts with the start URL at the head of its queue
C20_SitemapFailuresAreSwallowed ==
  [][(pc = "sm_fetch" \/ pc = "sm_subs") =>
       /\ pc' \in {"sm_fetch", "sm_subs", "http_loop"}
       /\ SourceFails => FoundSoFar' = FoundSoFar
       /\ PathDone =>
            (IF smUrls' = <<>> /\ smPath < Len(sitemapPaths)
             THEN /\ pc' = "sm_fetch"
                  /\ smPath' = smPath + 1
                  /\ smStack' = <<Frame(SitemapUrlAt(smPath + 1))>>
             ELSE /\ pc' = "http_loop"
                  /\ smPath' = smPath
                  /\ toVisit' # <<>>
                  /\ toVisit'[1] = normalizeUrl(startUrl)
                  /\ \A k \in 2..Len(toVisit') : Has(smUrls', toVisit'[k]))
    ]_vars

\* /sitemap.xml could not be fetched, /sitemap_index.xml gave URLs and ended the search,
\* and the crawl is about to start from the start URL
C20_Witness ==
  /\ pc = "http_loop" /\ smPath = 2 /\ smUrls # <<>>
  /\ SitemapResponse(site, SitemapUrlAt(1)).kind = "throw"
  /\ toVisit[1] = normalizeUrl(startUrl)

(***************************************************************************)
(* Properties of the local filenames                                       *)
(***************************************************************************)
\* C21: when a downloader has run, two asset URLs that differ after their query and
\* hash are stripped are never mapped to the same local path
C21_LocalPathsCollisionFree ==
  dlPc = "done" =>
    \A u1 \in DOMAIN dlOut.saved : \A u2 \in DOMAIN dlOut.saved :
      normalizeImageUrl(u1) # normalizeImageUrl(u2) => dlOut.saved[u1] # dlOut.saved[u2]

(***************************************************************************)
(* server.js: POST /api/clone, the progress callback and the promise       *)
(* handlers of a job, GET /api/download/:jobId/:type; utils/zip.js         *)
(***************************************************************************)
\* the values crypto.randomUUID().slice(0, 8) can return
JobIds == {"1b9d6bcd", "9c4f2a70"}

\* the most POST /api/clone requests and the most download requests the model follows
MaxRequests == 2
MaxDownloads == 2

\* the url of a request body: missing, not a URL, a URL
PostBodies == {"", "not a url", "https://example.com/"}

\* what a finished job can leave in its output directory
OutputContents ==
  { {}, {"style.css"}, {"wordpress-theme", "style.css", "assets"} }

\* the :type of a download request
DownloadTypes == {"wordpress", "all", "css", "pdf"}

\* cloner.js: createJob() is one of the values of JobIds
createJob(id) == id \in JobIds

\* path.join(OUTPUT_BASE, jobId)
OutputDir(jobId) == <<"output", jobId>>

\* path.join(OUTPUT_BASE, `${jobId}-${type}.zip`)
ZipPath(jobId, type) == <<"output", jobId, type, "zip">>

\* the progress callback the server passes to runCloneJob:
\* const job = jobs.get(jobId); if (job) { job.status = update.status; ... }
OnProgress(map, jobId, status, progress) ==
  IF MapHas(map, jobId)
  THEN [map EXCEPT ![jobId] = [@ EXCEPT !.status = status, !.progress = progress]]
  ELSE map

\* POST /api/clone: 400 for a body without a URL; otherwise a new job id, the job's
\* entry in the map, the start of runCloneJob (up to fs.ensureDirSync(outputDir)) and
\* the reply { jobId, status: 'started' }
PostClone ==
  /\ Len(posts) < MaxRequests
  /\ \E url \in PostBodies :
       IF url # "https://example.com/"
       THEN /\ posts' = Append(posts, 400)
            /\ UNCHANGED <<jobs, runs, outputs>>
       ELSE \E jobId \in JobIds, items \in OutputContents :
              /\ createJob(jobId)
              /\ jobs' = MapSet(jobs, jobId,
                                [status |-> "started", progress |-> 0, outputDir |-> Null])
              /\ runs' = Append(runs, [jobId |-> jobId, pc |-> "started", items |-> items])
              /\ outputs' = IF MapHas(outputs, jobId) THEN outputs ELSE MapSet(outputs, jobId, {})
              /\ posts' = Append(posts, 200)
  /\ UNCHANGED <<dls, zips>>
  /\ UNCHANGED NotSrv

\* runCloneJob: reportProgress(step, progress) with a progress below 100
ReportProgress(i) ==
  /\ runs[i].pc \in {"started", "working"}
  /\ \E progress \in {5, 95} :
       jobs' = OnProgress(jobs, runs[i].jobId, "in_progress", progress)
  /\ runs' = [runs EXCEPT ![i].pc = "working"]
  /\ UNCHANGED <<posts, outputs, dls, zips>>
  /\ UNCHANGED NotSrv

\* runCloneJob: the manifest is written and reportProgress('Done!', 100) is called
ReportDone(i) ==
  /\ runs[i].pc = "working"
  /\ outputs' = [outputs EXCEPT ![runs[i].jobId] = @ \cup runs[i].items]
  /\ jobs' = OnProgress(jobs, runs[i].jobId, "in_progress", 100)
  /\ runs' = [runs EXCEPT ![i].pc = "reported"]
  /\ UNCHANGED <<posts, dls, zips>>
  /\ UNCHANGED NotSrv

\* runCloneJob: catch (err): the callback with status 'error', then throw err
ReportError(i) ==
  /\ runs[i].pc = "working"
  /\ jobs' = OnProgress(jobs, runs[i].jobId, "error", 0)
  /\ runs' = [runs EXCEPT ![i].pc = "threw"]
  /\ UNCHANGED <<posts, outputs, dls, zips>>
  /\ UNCHANGED NotSrv

\* .then((result) => ...)
OnResolved(i) ==
  /\ runs[i].pc = "reported"
  /\ jobs' = IF MapHas(jobs, runs[i].jobId)
             THEN [jobs EXCEPT ![runs[i].jobId] =
                     [@ EXCEPT !.status = "completed", !.progress = 100,
                               !.outputDir = OutputDir(runs[i].jobId)]]
             ELSE jobs
  /\ runs' = [runs EXCEPT ![i].pc = "resolved"]
  /\ UNCHANGED <<posts, outputs, dls, zips>>
  /\ UNCHANGED NotSrv

\* .catch((err) => ...)
OnRejected(i) ==
  /\ runs[i].pc = "threw"
  /\ jobs' = IF MapHas(jobs, runs[i].jobId)
             THEN [jobs EXCEPT ![runs[i].jobId] = [@ EXCEPT !.status = "error"]]
             ELSE jobs
  /\ runs' = [runs EXCEPT ![i].pc = "rejected"]
  /\ UNCHANGED <<posts, outputs, dls, zips>>
  /\ UNCHANGED NotSrv

\* the reply of the download handler before it creates an archive; 0 if it creates one
DownloadCheck(jobId, type) ==
  IF ~MapHas(jobs, jobId) THEN 404
  ELSE IF jobs[jobId].status # "completed" THEN 400
  ELSE IF jobs[jobId].outputDir = Null \/ ~MapHas(outputs, jobId) THEN 404
  ELSE IF type = "wordpress"
       THEN IF "wordpress-theme" \in outputs[jobId] THEN 0 ELSE 404
  ELSE IF type = "all" THEN 0
  ELSE IF type = "css"
       THEN IF outputs[jobId] \cap {"style.css", "assets"} # {} THEN 0 ELSE 404
  ELSE 400


\* fs.createWriteStream(outputPath): the file is created, or cut to length 0 if it
\* exists, and request d writes to it
OpenZip(files, path, d) ==
  MapSet(files, path, [writing |-> (IF MapHas(files, path) THEN files[path].writing ELSE {})
                                     \cup {d}])

\* the requests whose archive is lost when request d opens the file at path: those that
\* wrote, write or send the file of that name
Truncated(path, d) ==
  {e \in 1..Len(dls) :
     /\ e # d
     /\ MapHas(zips, path)
     /\ ZipPath(dls[e].jobId, dls[e].type) = path
     /\ dls[e].pc \in {"zipping", "zipped", "sending"}}

\* GET /api/download/:jobId/:type up to the call of createZipFromDir / createZipFromItems
Download ==
  /\ Len(dls) < MaxDownloads
  /\ \E jobId \in JobIds, type \in DownloadTypes :
       LET code == DownloadCheck(jobId, type)
           d == Len(dls) + 1
           path == ZipPath(jobId, type)
       IN IF code # 0
          THEN /\ dls' = Append(dls, [jobId |-> jobId, type |-> type, pc |-> "done",
                                      reply |-> code, sent |-> "", spoiled |-> FALSE])
               /\ zips' = zips
          ELSE /\ dls' = Append([e \in 1..Len(dls) |->
                                   IF e \in Truncated(path, d)
                                   THEN [dls[e] EXCEPT !.spoiled = TRUE] ELSE dls[e]],
                                [jobId |-> jobId, type |-> type, pc |-> "zipping",
                                 reply |-> 0, sent |-> "", spoiled |-> FALSE])
               /\ zips' = OpenZip(zips, path, d)
  /\ UNCHANGED <<jobs, posts, runs, outputs>>
  /\ UNCHANGED NotSrv

\* zip.js: archive.finalize() has written the archive and output emits 'close'
ZipClosed(d) ==
  /\ dls[d].pc = "zipping"
  /\ dls' = [dls EXCEPT ![d].pc = "zipped"]
  /\ zips' = IF MapHas(zips, ZipPath(dls[d].jobId, dls[d].type))
             THEN [zips EXCEPT ![ZipPath(dls[d].jobId, dls[d].type)].writing = @ \ {d}]
             ELSE zips
  /\ UNCHANGED <<jobs, posts, runs, outputs>>
  /\ UNCHANGED NotSrv

\* the files without the one at path
RemoveFile(files, path) == [f \in DOMAIN files \ {path} |-> files[f]]

\* res.download(zipPath, ...) opens the file: it is sent if it exists; if not, the
\* callback gets the error and removes the file
SendStart(d) ==
  /\ dls[d].pc = "zipped"
  /\ IF MapHas(zips, ZipPath(dls[d].jobId, dls[d].type))
     THEN /\ dls' = [dls EXCEPT ![d].pc = "sending", ![d].reply = 200,
                                ![d].spoiled = @ \/ zips[ZipPath(dls[d].jobId, dls[d].type)].writing # {}]
          /\ zips' = zips
     ELSE /\ dls' = [dls EXCEPT ![d].pc = "done", ![d].reply = 200, ![d].sent = "nothing"]
          /\ zips' = zips
  /\ UNCHANGED <<jobs, posts, runs, outputs>>
  /\ UNCHANGED NotSrv

\* the transfer has ended: the callback of res.download runs fs.remove(zipPath)
SendEnd(d) ==
  /\ dls[d].pc = "sending"
  /\ dls' = [dls EXCEPT ![d].pc = "done",
                        ![d].sent = IF dls[d].spoiled THEN "damaged" ELSE "complete"]
  /\ zips' = RemoveFile(zips, ZipPath(dls[d].jobId, dls[d].type))
  /\ UNCHANGED <<jobs, posts, runs, outputs>>
  /\ UNCHANGED NotSrv

RunStep ==
  \E i \in 1..Len(runs) :
    ReportProgress(i) \/ ReportDone(i) \/ ReportError(i) \/ OnResolved(i) \/ OnRejected(i)

DownloadStep == \E d \in 1..Len(dls) : ZipClosed(d) \/ SendStart(d) \/ SendEnd(d)

SrvNext == PostClone \/ RunStep \/ Download \/ DownloadStep

InitServer == SrvIdle /\ CrawlIdle /\ JobIdle /\ DlIdle /\ RwIdle /\ FnIdle

SpecServer == InitServer /\ [][SrvNext]_vars

(***************************************************************************)
(* Properties of the server                                                *)
(***************************************************************************)
\* C22: no two accepted POST /api/clone requests receive the same jobId (and so none
\* replaces another job's entry of the jobs map or shares its output directory)
C22_JobIdsUnique ==
  \A i \in 1..Len(runs) : \A j \in 1..Len(runs) :
    i # j => runs[i].jobId # runs[j].jobId

\* the status of a job may change from a to b
StatusStep(a, b) ==
  \/ b = a
  \/ a = "started" /\ b = "in_progress"
  \/ a = "in_progress" /\ b \in {"completed", "error"}

\* the download request that arrives in this step
Arriving == dls'[Len(dls')]

\* C27: the status of every job of the jobs map moves started -> in_progress ->
\* (completed | error) and stays at completed or error; it becomes completed only after
\* progress 100 was reported; a download request is served an archive only if the job
\* is completed, gets 404 for an unknown job and 400 for a job not yet completed
C27_JobStatusProtocol ==
  [][/\ \A id \in DOMAIN jobs :
          /\ StatusStep(jobs[id].status, jobs'[id].status)
          /\ (jobs'[id].status = "completed" /\ jobs[id].status # "completed")
               => jobs[id].progress = 100
     /\ Len(dls') > Len(dls) =>
          /\ Arriving.reply = 0 => (MapHas(jobs, Arriving.jobId)
                                     /\ jobs[Arriving.jobId].status = "completed")
          /\ ~MapHas(jobs, Arriving.jobId) => Arriving.reply = 404
          /\ (MapHas(jobs, Arriving.jobId) /\ jobs[Arriving.jobId].status # "completed")
               => Arriving.reply = 400
    ]_vars

\* C29: download requests for the same completed job and the same type do not
\* interfere: every request that was served has sent a complete archive when it is
\* done; no other request has cut or removed its zip file before
C29_ConcurrentDownloadsComplete ==
  \A d \in 1..Len(dls) :
    (dls[d].pc = "done" /\ dls[d].reply = 200) => dls[d].sent = "complete"

(***************************************************************************)
(* The frontier and the visited set                                        *)
(***************************************************************************)
NoDuplicates(seq) == \A i \in 1..Len(seq) : \A j \in 1..Len(seq) : seq[i] = seq[j] => i = j

AtLoopHead == pc = "pptr_loop" \/ pc = "http_loop"

\* C24: in every state of a crawl loop the frontier holds no URL twice and no visited
\* URL; a URL enters visited only when it is popped, it was not visited before, and its
\* fetch is issued in that step, once; no step of the loop enqueues a visited URL, so
\* the head of the frontier is never a visited URL and the skip branch is never taken
C24_FrontierDisjointFromVisited ==
  /\ [](InLoop => NoDuplicates(toVisit) /\ Range(toVisit) \cap visited = {})
  /\ []((AtLoopHead /\ toVisit # <<>>) => Head(toVisit) \notin visited)
  /\ [][(InLoop /\ InLoop') =>
          /\ visited \subseteq visited'
          /\ \A u \in visited' \ visited :
                /\ AtLoopHead /\ toVisit # <<>> /\ u = Head(toVisit)
                /\ cur' = u
                /\ FetchCount(u)' = FetchCount(u) + 1
          /\ \A u \in Range(toVisit') \ Range(toVisit) : u \notin visited']_vars

\* a crawl has fetched / and /about of the site whose pages link to each other and to
\* themselves, and has returned with every link to a visited page left out of the frontier
C24_Witness ==
  /\ pc = "returned"
  /\ web = Web2
  /\ {Site(<<"/">>), Site(<<"/", "about">>)} \subseteq visited
  /\ Len(pages) >= 2
  /\ toVisit = <<>>

\* C25: a crawl never holds more than maxPages pages (2000 when the option is not
\* set), and a page fetch is issued only while fewer than maxPages pages were fetched
\* with success
C25_PageCapBoundsTheCrawl ==
  /\ [](maxPagesOpt = 0 => maxPages = 2000)
  /\ [](Len(pages) <= maxPages)
  /\ [][fetches' # fetches => Len(pages) < maxPages]_vars

\* with a cap of two pages a third fetch is issued, because only one of the first two
\* fetches gave a page; the crawl ends with two pages and links it never followed
C25_Witness ==
  /\ pc = "returned"
  /\ maxPages = MaxPagesCap
  /\ Len(pages) = maxPages
  /\ BagCardinality(fetches) > maxPages
  /\ toVisit # <<>>

\* C28: a browser is open only inside crawlSitePuppeteer, between its launch and its
\* finally block; at most one is open at any time, none when an attempt is about to
\* launch, none while the HTTP crawl runs and none after crawlSite has returned
C28_BrowsersAreClosed ==
  /\ browsers \in {0, 1}
  /\ browsers = 1 <=> pc \in {"setup", "pptr_loop", "pptr_goto", "pptr_handle"}
  /\ httpRuns > 0 => browsers = 0

\* the first headless attempt threw, the second one crawled a page and returned: no
\* browser is left open
C28_Witness ==
  /\ usePuppeteer /\ launches = 2 /\ httpRuns = 0
  /\ pc = "returned" /\ Len(pages) >= 1
  /\ browsers = 0

(***************************************************************************)
(* Links to a page in its four spellings                                   *)
(***************************************************************************)
\* the four spellings of a page URL: bare and www. host, each with and without a
\* trailing slash (the root path has the slash in both)
PageVariants(url) ==
  LET u == ParseUrl(url)
      bare == StripWww(u.hostname)
      path == IF NoTrailingSlash(u.pathname) = <<>> THEN <<"/">> ELSE NoTrailingSlash(u.pathname)
      slash == IF path = <<"/">> THEN path ELSE path \o <<"/">>
  IN { <<u.protocol, "/", "/">> \o h \o q : h \in {bare, <<"www", ".">> \o bare}, q \in {path, slash} }

RwHtmlFiles == extractHtml(rwSite.pages)

\* C26: every spelling of a crawled page's URL is a key of the map of
\* buildUrlToLocalPath with the page's filename as value, and rewriteHtml replaces an
\* anchor href that is one of these spellings by that filename
C26_PageVariantsAreRewritten ==
  rwPc = "once" =>
    \A k \in 1..Len(RwHtmlFiles) : \A v \in PageVariants(RwHtmlFiles[k].url) :
       /\ MapHas(RwPageMap, v) /\ RwPageMap[v] = RwHtmlFiles[k].filename
       /\ \A i \in 1..Len(rwDoc.links) :
             rwDoc.links[i] = v => rwOnce.html.links[i] = RwHtmlFiles[k].filename

(***************************************************************************)
(* Properties of resolveImports                                            *)
(***************************************************************************)
ImportsRun == fnOp = "resolveImports" /\ fnPc \in {"imports", "done"}

\* the stylesheet URLs of the site that no call has seen yet
UnseenSheets == {CssA, CssB, CssC} \ Range(fnOut[1].seen)

RECURSIVE MatchesLeft(_)
\* the matches and returns the calls in progress still have to make
MatchesLeft(stack) ==
  IF stack = <<>> THEN 0
  ELSE (Len(Head(stack).refs) - Head(stack).i + 2) + MatchesLeft(Tail(stack))

ImportRank == <<Cardinality(UnseenSheets), MatchesLeft(fnOut[1].stack)>>

\* the fetch of the import did not give the stylesheet
FailedImport(url) == CssResponse(fnArgs[1], url).status # 200

\* C30: resolveImports terminates, also for a stylesheet that imports itself and for
\* stylesheets that import each other (every step decreases ImportRank, a pair of
\* natural numbers in lexicographic order); one top-level call fetches no URL twice;
\* and the result holds nothing of an import whose fetch failed
C30_ImportsTerminateAndFetchOnce ==
  /\ [](ImportsRun => NoDuplicates(fnOut[1].fetched))
  /\ []((ImportsRun /\ fnPc = "done") =>
          \A i \in 1..Len(fnOut[1].fetched) :
             FailedImport(fnOut[1].fetched[i]) => ~Has(fnOut[1].result, fnOut[1].fetched[i]))
  /\ [][(fnOp = "resolveImports" /\ fnPc = "imports" /\ fnPc' = "imports") =>
          LexLess(ImportRank', ImportRank)]_vars

(***************************************************************************)
(* crawlSitePuppeteer: from page.goto to page.content                      *)
(***************************************************************************)
\* for (let round = 0; round < 15; round++)
CLICK_ROUNDS == 15

\* window.scrollBy(0, 300); totalHeight += 300
SCROLL_STEP == 300

\* the most images of one page that are not complete when a wait for them starts
MaxPending == 2

\* the steps between a response with a status below 400 and the capture of the page
MatSteps == <<"heroWait", "carousel", "reveal", "wait1500", "clicks", "wait2000", "scroll",
              "wait2500", "images", "settle", "capture", "done">>

StepAfter(step) == MatSteps[(CHOOSE k \in 1..Len(MatSteps) : MatSteps[k] = step) + 1]

\* the pages: incomplete images under the carousel selectors and in document.images, a
\* visible "next" control, the height of the document, whether the document grows
\* while it is scrolled (a feed that loads more), and whether document.body exists
MatPages ==
  [carousel : 0..MaxPending, images : {0, MaxPending}, nextButton : BOOLEAN,
   height : {SCROLL_STEP, 2 * SCROLL_STEP}, grows : BOOLEAN, hasBody : BOOLEAN]

Page == fnArgs[1]

\* the images a step that waits for images finds incomplete
PendingAt(step) == CASE step = "carousel" -> Page.carousel
                     [] step = "images" -> Page.images
                     [] OTHER -> 0

\* the protocol moves on to the step after fnPc
NextStep(st) ==
  /\ fnPc' = StepAfter(fnPc)
  /\ fnOut' = <<[st EXCEPT !.pending = PendingAt(StepAfter(fnPc))]>>

\* page.goto answered with a status below 400
MatInit ==
  /\ fnPc = "heroWait"
  /\ fnOp = "materialize"
  /\ fnArgs \in {<<pg>> : pg \in MatPages}
  /\ fnOut = <<[pending |-> 0, round |-> 0, behind |-> fnArgs[1].height, tick |-> FALSE,
               captured |-> FALSE]>>

\* await new Promise(r => setTimeout(r, ...)): the timer of a fixed wait fires
TimerFires ==
  /\ fnPc \in {"heroWait", "wait1500", "wait2000", "wait2500", "settle"}
  /\ NextStep(fnOut[1])
  /\ UNCHANGED <<fnOp, fnArgs>>
  /\ UNCHANGED NotFn

\* the two waits for images: an image loads, fails or reaches its own timeout, and
\* Promise.all resolves when none is left; a rejected evaluate is caught
AwaitImages ==
  /\ fnPc \in {"carousel", "images"}
  /\ \/ /\ fnOut[1].pending > 0
        /\ fnOut' = <<[fnOut[1] EXCEPT !.pending = @ - 1]>>
        /\ UNCHANGED fnPc
     \/ /\ fnOut[1].pending = 0
        /\ NextStep(fnOut[1])
     \/ NextStep(fnOut[1])
  /\ UNCHANGED <<fnOp, fnArgs>>
  /\ UNCHANGED NotFn

\* the hidden slides are shown, in one synchronous script; a rejected evaluate is caught
Reveal ==
  /\ fnPc = "reveal"
  /\ NextStep(fnOut[1])
  /\ UNCHANGED <<fnOp, fnArgs>>
  /\ UNCHANGED NotFn

\* one round of the click loop: a visible control is clicked, or the loop ends because
\* none is visible or the rounds are used up; a rejected evaluate is caught
ClickRound ==
  /\ fnPc = "clicks"
  /\ \/ /\ fnOut[1].round < CLICK_ROUNDS /\ Page.nextButton
        /\ fnOut' = <<[fnOut[1] EXCEPT !.round = @ + 1]>>
        /\ UNCHANGED fnPc
     \/ NextStep(fnOut[1])
  /\ UNCHANGED <<fnOp, fnArgs>>
  /\ UNCHANGED NotFn

\* one tick of the setInterval callback of the auto-scroll.  The state keeps
\* behind = document.body.scrollHeight - totalHeight, which decides the end of the
\* scroll, and the parity of the ticks, which tells a tick from the one before.  A page
\* that grows may have grown by a step since the last tick.  Without document.body the
\* callback throws at the read of scrollHeight, in the page, and the promise stays pending
ScrollTick ==
  /\ fnPc = "scroll"
  /\ \E grown \in (IF Page.grows THEN {0, SCROLL_STEP} ELSE {0}) :
       LET st == [fnOut[1] EXCEPT !.behind = IF Page.hasBody THEN @ - SCROLL_STEP + grown ELSE @,
                                  !.tick = ~@]
       IN IF Page.hasBody /\ st.behind <= 0
            THEN NextStep(st)
            ELSE fnOut' = <<st>> /\ UNCHANGED fnPc
  /\ UNCHANGED <<fnOp, fnArgs>>
  /\ UNCHANGED NotFn

\* the evaluate call of the auto-scroll is rejected (the page navigated away and its
\* execution context is gone): .catch(() => {})
ScrollRejected ==
  /\ fnPc = "scroll"
  /\ NextStep(fnOut[1])
  /\ UNCHANGED <<fnOp, fnArgs>>
  /\ UNCHANGED NotFn

\* const html = await page.content(); pages.push({ url, html, title })
Capture ==
  /\ fnPc = "capture"
  /\ fnPc' = "done"
  /\ fnOut' = <<[fnOut[1] EXCEPT !.captured = TRUE]>>
  /\ UNCHANGED <<fnOp, fnArgs>>
  /\ UNCHANGED NotFn

MatNext ==
  \/ TimerFires \/ AwaitImages \/ Reveal \/ ClickRound \/ ScrollTick \/ ScrollRejected
  \/ Capture

InitMaterialize == MatInit /\ CrawlIdle /\ JobIdle /\ DlIdle /\ RwIdle /\ SrvIdle

\* timers fire and scripts run; nothing makes a page navigate away
SpecMaterialize ==
  /\ InitMaterialize
  /\ [][MatNext]_vars
  /\ WF_vars(TimerFires) /\ WF_vars(AwaitImages) /\ WF_vars(Reveal) /\ WF_vars(ClickRound)
  /\ WF_vars(ScrollTick) /\ WF_vars(Capture)

\* C23: for a page that loaded with a status below 400 the content-materialization
\* protocol ends and the page is captured, whatever happens in its steps: also when an
\* evaluate is rejected, and when the document keeps growing while it is scrolled
C23_MaterializationCaptures ==
  (fnPc = "heroWait") ~> (fnPc = "done" /\ fnOut[1].captured)

=============================================================================
